---- MODULE Spec2Model ----
(***************************************************************************)
(* Model of the CHRE event loop (src/core/event_loop.cc): the inbound      *)
(* event queue, the event pool with its reference counts, the nanoapp      *)
(* list, nanoapp start / unload, the run loop and its shutdown drain, and  *)
(* the threads that post events and call stop() concurrently.              *)
(*                                                                         *)
(* Threads:                                                                *)
(*   loop  the event loop thread: run(), startNanoapp(), unloadNanoapp(),  *)
(*         every nanoapp entry point and every free callback;              *)
(*   stop  a thread calling EventLoop::stop();                             *)
(*   ext   a platform thread calling EventLoop::postEvent().               *)
(* A Nanoapp* is modelled by the nanoapp's instance id, nullptr by NoApp.  *)
(* An Event* is modelled by the index of the event in mEventPool.          *)
(***************************************************************************)
EXTENDS Integers, Sequences, FiniteSets, TLC

\* ---------------------------------------------------------------- bounds
\* number of blocks of the event pool (mEventPool)
MaxEventCount == 2
\* capacity of the inbound blocking queue (mEvents)
MaxUnhandledEventCount == 1
\* total number of events allocated in one behaviour
MaxPosts == 3
\* total number of instance ids handed out in one behaviour
MaxInstances == 2

\* ------------------------------------------------------------- constants
kSystemInstanceId == 0
\* UINT32_MAX; written as the 32-bit pattern 0xFFFFFFFF read as a signed
\* integer, the model checker's integers being 32 bits wide
kBroadcastInstanceId == -1
NoApp == 0

\* the nanoapps that may be started: a system nanoapp that registers for no
\* broadcast event and a nanoapp that registers for event type 1, the type
\* of every event posted but the stop sentinel (type 0)
Catalogue == { [ appId |-> 10, isSystem |-> TRUE, reg |-> {} ],
               [ appId |-> 20, isSystem |-> FALSE, reg |-> {1} ] }
InstanceIds == 1..MaxInstances
\* the targets of the events posted: every nanoapp, or the first instance
Targets == {kBroadcastInstanceId, 1}
\* the events the platform thread posts: a broadcast without free callback,
\* or an event for the first instance with a free callback
ExtPosts == { [ target |-> kBroadcastInstanceId, cb |-> FALSE ],
              [ target |-> 1, cb |-> TRUE ] }

VARIABLES
  mRunning,           \* EventLoop::mRunning
  mEvents,            \* inbound queue: sequence of event indices
  mEventPool,         \* every event allocated so far; .live = block in use
  mNanoapps,          \* sequence of nanoapp records
  mCurrentApp,        \* instance id or NoApp
  mStoppingNanoapp,   \* instance id or NoApp
  nextInstanceId,     \* EventLoopManager's instance id counter
  pc,                 \* position of the loop thread
  dctx,               \* who called deliverEvents: "run", "unload", "drain"
  appIdx,             \* deliverEvents: index of the next nanoapp to visit
  roundPending,       \* deliverEvents: local havePendingEvents
  havePendingEvents,  \* run(): local havePendingEvents
  unloadIdx,          \* unloadNanoapp: local i
  retPc,              \* where unloadNanoapp returns to
  stopPc,             \* position of the stop thread
  extPc,              \* position of the platform thread inside postEvent
  hist,               \* observations: calls made and their results
  mRequests,              \* RequestMultiplexer::mRequests
  mCurrentMaximalRequest, \* RequestMultiplexer::mCurrentMaximalRequest
  maximalRequestChanged,  \* what the latest addRequest / removeRequest /
                          \* updateRequest reported
  muxCall,            \* observation: the latest multiplexer call
  operands,           \* three SensorRequests to merge
  mergedRequest,      \* the merges of the operands, once computed
  mScanMonitorNanoapps,          \* WifiRequestManager: instance ids
  mScanMonitorStateTransitions,  \* WifiRequestManager: pending transitions
  driverInFlight,     \* transitions the wifi driver accepted and has not
                      \* completed yet
  deferredCallbacks,  \* completions deferred to the event loop
  wifiHist,           \* observations: calls, results, driver calls
  mSockFd,            \* SocketClient: INVALID_SOCKET or the state of the
                      \* socket the descriptor names
  mGracefulShutdown,  \* SocketClient::mGracefulShutdown
  mReconnectAutomatically,  \* SocketClient::mReconnectAutomatically
  mRxThread,          \* SocketClient::mRxThread: the thread it names, 0
                      \* when not joinable
  rx,                 \* the receive threads: position and reconnect locals
  caller,             \* the thread calling connect / disconnect: position
  sockHist            \* observations: callbacks invoked, calls returned

\* the request multiplexer and the requests merged: not touched by the
\* event loop
muxVars == << mRequests, mCurrentMaximalRequest, maximalRequestChanged,
              muxCall, operands, mergedRequest >>

\* the event loop and its threads: not touched by the multiplexer
loopVars == << mRunning, mEvents, mEventPool, mNanoapps, mCurrentApp,
               mStoppingNanoapp, nextInstanceId, pc, dctx, appIdx,
               roundPending, havePendingEvents, unloadIdx, retPc, stopPc,
               extPc, hist >>

\* the wifi request manager and its driver
wifiVars == << mScanMonitorNanoapps, mScanMonitorStateTransitions,
               driverInFlight, deferredCallbacks, wifiHist >>

\* the host's socket client, its receive threads and its caller
sockVars == << mSockFd, mGracefulShutdown, mReconnectAutomatically,
               mRxThread, rx, caller, sockHist >>

vars == << loopVars, muxVars, wifiVars, sockVars >>

\* ------------------------------------------------------------ the state
\* The part of the state that the loop's own functions read and write, as
\* one record, so that nested calls compose.
InDrain == pc \in {"d_inbound", "d_unload", "done"}
             \/ (pc = "deliver" /\ dctx = "drain")

\* the nanoapp unloadNanoapp is unloading, from the statement that sets
\* mStoppingNanoapp to the erasure of the nanoapp; NoApp otherwise
Unloading ==
  IF pc = "u_end" \/ (pc = "deliver" /\ dctx = "unload")
  THEN mNanoapps[unloadIdx].instanceId
  ELSE NoApp

Core == [ running |-> mRunning, inb |-> mEvents, pool |-> mEventPool,
          apps |-> mNanoapps, cur |-> mCurrentApp,
          stopping |-> mStoppingNanoapp, h |-> hist, ret |-> FALSE,
          drain |-> InDrain, unloading |-> Unloading ]

SetCore(S) ==
  /\ mEvents' = S.inb
  /\ mEventPool' = S.pool
  /\ mNanoapps' = S.apps
  /\ mCurrentApp' = S.cur
  /\ mStoppingNanoapp' = S.stopping
  /\ hist' = S.h

\* hist.last is the outcome of the latest startNanoapp / unloadNanoapp call,
\* as its log line tells it: op "start" with why "ok", "dup" (already
\* exists), "nomem" (failed to allocate space), "failed" (failed to start);
\* op "unload" with why "ok", "system" (refusing to unload) or "missing";
\* for an unload that went ahead, waited and sent tell whether events were
\* waiting for the nanoapp, or queued events had it as sender, at the call.
\* A postEvent call of another thread is op "post", why "ok" or "failed".
\* hist.stopCalled: stop() was called; hist.senderLeft: an unloadNanoapp
\* returned true with an event of the unloaded nanoapp still queued;
\* hist.drainFreed: the shutdown drain freed an event that had been accepted
\* before stop() was called; hist.sentWhileStopping: an event sent by a
\* nanoapp was accepted while unloadNanoapp had it marked as stopping or
\* after the loop was stopped. hist.last.refused: during the unloadNanoapp
\* in progress, a send of the nanoapp being unloaded was refused.
\* hist.outOfOrder: a nanoapp's handler got an event while an event accepted
\* earlier, of the same sender and target, was still waiting for it;
\* hist.inOrder: it got an event while one accepted later, of the same sender
\* and target, was waiting in its queue.
\* hist.round observes the deliverEvents call in progress: the length of
\* every nanoapp's queue when it was entered (start, pairs of instance id
\* and length) and the nanoapps it has delivered an event to, in the order
\* of the deliveries (got).
NoRound == [ start |-> {}, got |-> << >> ]

NoCall == [ op |-> "none", why |-> "none", ret |-> FALSE,
            waited |-> FALSE, sent |-> FALSE, refused |-> FALSE ]
\* hist.napp[id] observes the nanoapp with instance id id: whether its start
\* entry point ran and what it returned, how often its end entry point ran,
\* whether its handler ran after its end, and, for its unload: the events
\* that waited for it when unloadNanoapp was called (mustDeliver, emptied
\* as they are delivered) and whether one of them had not reached it when
\* its end ran (missedAtEnd).
NoNapp == [ started |-> FALSE, startRet |-> FALSE, ends |-> 0,
            handledAfterEnd |-> FALSE, mustDeliver |-> {},
            missedAtEnd |-> FALSE ]

PostLog(ret) == [ NoCall EXCEPT !.op = "post", !.ret = ret,
                    !.why = IF ret THEN "ok" ELSE "failed" ]

InitHist == [ last |-> NoCall,
              napp |-> [ i \in InstanceIds |-> NoNapp ],
              stopCalled |-> FALSE, senderLeft |-> FALSE,
              drainFreed |-> FALSE, sentWhileStopping |-> FALSE,
              outOfOrder |-> FALSE, inOrder |-> FALSE, round |-> NoRound,
              wrongCur |-> FALSE ]

\* no multiplexer in use, nothing to merge
NoMuxCall == [ op |-> "none", before |-> << >>, request |-> << >> ]

\* no multiplexer has been constructed
MuxAbsent ==
  /\ mRequests = << >>
  /\ mCurrentMaximalRequest = << >>
  /\ maximalRequestChanged = FALSE
  /\ muxCall = NoMuxCall

\* no requests have been chosen for merging
MergeIdle ==
  /\ operands = << >>
  /\ mergedRequest = << >>

MuxIdle == MuxAbsent /\ MergeIdle

LoopInit ==
  /\ mRunning = TRUE
  /\ mEvents = << >>
  /\ mEventPool = << >>
  /\ mNanoapps = << >>
  /\ mCurrentApp = NoApp
  /\ mStoppingNanoapp = NoApp
  /\ nextInstanceId = 1
  /\ pc = "check"
  /\ dctx = "run"
  /\ appIdx = 1
  /\ roundPending = FALSE
  /\ havePendingEvents = FALSE
  /\ unloadIdx = 0
  /\ retPc = "check"
  /\ stopPc = "idle"
  /\ extPc = "idle"
  /\ hist = InitHist

\* wifiHist.calls: one record per configureScanMonitor call, at the index
\* that serves as the call's cookie: its arguments, what it returned, how
\* many async results were posted with its cookie, the success flag and
\* error code of the latest of them, and the place the result came from
\* (how: "immediate" from configureScanMonitor, "head" for the transition
\* completed, "instate" for a queued transition found in its requested
\* state, "refused" for a queued transition the driver refused). wifiHist.driverCalls: the arguments of
\* the driver's configureScanMonitor calls and whether each was accepted.
\* wifiHist.outstanding: driver calls accepted and not yet handled by
\* handleScanMonitorStateChangeSync. wifiHist.granted: the instance ids
\* whose latest successful result was for an enable request.
\* wifiHist.dead: "fatal" after FATAL_ERROR, "assert" after a failed
\* assertion, else "none". wifiHist.last: the latest call of the manager.
NoWifiCall == [ op |-> "none" ]

InitWifiHist == [ calls |-> << >>, driverCalls |-> << >>, outstanding |-> 0,
                  granted |-> {}, dead |-> "none", last |-> NoWifiCall ]

\* WifiRequestManager::WifiRequestManager: nothing requested, the driver
\* idle
WifiInit ==
  /\ mScanMonitorNanoapps = << >>
  /\ mScanMonitorStateTransitions = << >>
  /\ driverInFlight = << >>
  /\ deferredCallbacks = << >>
  /\ wifiHist = InitWifiHist

\* ---------------------------------------------------- the socket client
\* connect() calls made in a behaviour; each successful one starts a thread
MaxConnects == 2
\* times the remote end closes the connection or recv fails
MaxRemoteCloses == 2
\* messages the remote end sends
MaxMessages == 1

INVALID_SOCKET == "INVALID_SOCKET"
RxThreads == 1..MaxConnects

\* a receive thread that has not been started. delay and retryLimit are the
\* locals of reconnect(); waits are the backoff waits of the latest
\* reconnect() that ran to their end, attempts its tryConnect() calls,
\* overflow whether doubling the delay left the range of int32_t, cycle how
\* that reconnect() ended, notified whether mShutdownCond has been notified
\* while the thread was blocked on it.
NoRxThread ==
  [ pc |-> "none", delay |-> 0, retryLimit |-> 0, waits |-> << >>,
    attempts |-> 0, overflow |-> FALSE, cycle |-> "none",
    notified |-> FALSE ]

CallerIdle == [ pc |-> "idle", op |-> "none", auto |-> FALSE, valid |-> FALSE ]

InitSockHist ==
  [ connects |-> 0, closes |-> 0, messages |-> 0, started |-> 0,
    onMessageReceived |-> 0, onSocketDisconnectedByRemote |-> 0,
    onSocketReconnected |-> 0, onReconnectAborted |-> 0, abortedAfter |-> 0,
    last |-> [ op |-> "none", ret |-> FALSE ] ]

\* SocketClient::SocketClient
SockInit ==
  /\ mSockFd = INVALID_SOCKET
  /\ mGracefulShutdown = FALSE
  /\ mReconnectAutomatically = FALSE
  /\ mRxThread = 0
  /\ rx = [ t \in RxThreads |-> NoRxThread ]
  /\ caller = CallerIdle
  /\ sockHist = InitSockHist

Init == LoopInit /\ MuxIdle /\ WifiInit /\ SockInit

\* --------------------------------------------------------------- helpers
RECURSIVE LiveCount(_)
LiveCount(pool) ==
  IF pool = << >> THEN 0
  ELSE (IF pool[Len(pool)].live THEN 1 ELSE 0)
         + LiveCount(SubSeq(pool, 1, Len(pool) - 1))

\* index in the list of the nanoapp with this instance id, 0 when absent
IndexOfInstance(apps, instanceId) ==
  IF \E i \in 1..Len(apps) : apps[i].instanceId = instanceId
  THEN CHOOSE i \in 1..Len(apps) :
         /\ apps[i].instanceId = instanceId
         /\ \A j \in 1..(i - 1) : apps[j].instanceId # instanceId
  ELSE 0

RemoveAt(seq, i) == SubSeq(seq, 1, i - 1) \o SubSeq(seq, i + 1, Len(seq))

\* what one nanoapp entry point or one free callback does with the runtime:
\* nothing, or one attempt to send an event
NoAct == [ post |-> FALSE, target |-> kBroadcastInstanceId, cb |-> FALSE ]
Acts == { NoAct } \cup
        [ post : {TRUE}, target : Targets, cb : {TRUE} ]

\* ------------------------------------------------------------ event pool
\* Event::Event and mEventPool.allocate: a fresh event with mRefCount = 0.
\* accepted, preStop, distributed, enq, deliv, frees, badRef and undelivered
\* observe the event; the code does not read them.
NewEvent(eventType, freeCallback, senderInstanceId, targetInstanceId, pushed, preStop) ==
  [ live |-> TRUE, eventType |-> eventType, freeCallback |-> freeCallback,
    senderInstanceId |-> senderInstanceId,
    targetInstanceId |-> targetInstanceId, mRefCount |-> 0,
    accepted |-> pushed, preStop |-> preStop, distributed |-> FALSE,
    enq |-> {}, deliv |-> {}, frees |-> 0, badRef |-> FALSE,
    undelivered |-> FALSE ]

\* mEventPool.deallocate: the block is free again; what is kept of the
\* event is how often it was freed, whether it was referenced when freed,
\* and whether, posted before stop(), it was freed outside the shutdown
\* drain before reaching every nanoapp distributeEvent had given it to
Deallocated(event, inDrain) ==
  [ live |-> FALSE, eventType |-> 0, freeCallback |-> FALSE,
    senderInstanceId |-> 0, targetInstanceId |-> 0, mRefCount |-> 0,
    accepted |-> TRUE, preStop |-> TRUE,
    distributed |-> FALSE, enq |-> {}, deliv |-> {},
    frees |-> event.frees + 1,
    badRef |-> event.badRef \/ event.mRefCount # 0,
    undelivered |-> \/ event.undelivered
                    \/ /\ event.preStop
                       /\ ~inDrain
                       /\ ~(event.distributed /\ event.enq \subseteq event.deliv) ]

isUnreferenced(event) == event.mRefCount = 0

lookupAppByAppId(apps, appId) ==
  IF \E i \in 1..Len(apps) : apps[i].appId = appId
  THEN (CHOOSE i \in 1..Len(apps) :
          /\ apps[i].appId = appId
          /\ \A j \in 1..(i - 1) : apps[j].appId # appId)
  ELSE 0

lookupAppByInstanceId(apps, instanceId) ==
  IF instanceId # kSystemInstanceId /\ IndexOfInstance(apps, instanceId) # 0
  THEN instanceId
  ELSE NoApp

\* fault variant: postEvent reports success whenever the allocation
\* succeeded, without looking at what mEvents.push returned
AllocateAndPush_IgnorePush(S, eventType, freeCallback, senderInstanceId, targetInstanceId) ==
  LET e == Len(S.pool) + 1
      pushed == Len(S.inb) < MaxUnhandledEventCount
  IN IF LiveCount(S.pool) >= MaxEventCount
     THEN [ S EXCEPT !.ret = FALSE ]
     ELSE [ S EXCEPT
              !.pool = Append(@, NewEvent(eventType, freeCallback,
                         senderInstanceId, targetInstanceId,
                         pushed, ~S.h.stopCalled)),
              !.inb = IF pushed THEN Append(@, e) ELSE @,
              !.ret = TRUE ]

\* postEvent after its test of mRunning: allocate, then push
AllocateAndPush(S, eventType, freeCallback, senderInstanceId, targetInstanceId) ==
  LET e == Len(S.pool) + 1
      pushed == Len(S.inb) < MaxUnhandledEventCount
  IN IF LiveCount(S.pool) >= MaxEventCount
     THEN [ S EXCEPT !.ret = FALSE ]
     ELSE [ S EXCEPT
              !.pool = Append(@, NewEvent(eventType, freeCallback,
                         senderInstanceId, targetInstanceId,
                         pushed, ~S.h.stopCalled)),
              !.inb = IF pushed THEN Append(@, e) ELSE @,
              !.ret = pushed ]

\* EventLoop::postEvent, run without interruption (on the loop thread, or
\* the call made by stop())
postEvent(S, eventType, freeCallback, senderInstanceId, targetInstanceId) ==
  IF S.running
  THEN AllocateAndPush(S, eventType, freeCallback, senderInstanceId,
                       targetInstanceId)
  ELSE [ S EXCEPT !.ret = FALSE ]

\* fault variant: only the stop of the loop is looked at, not the marker
currentNanoappIsStopping_OnlyRunning(S) == ~S.running

currentNanoappIsStopping(S) == S.cur = S.stopping \/ ~S.running

\* chreSendEvent as called by nanoapp code: refused while the caller is
\* stopping, otherwise a post with the caller as sender
chreSendEvent(S, act) ==
  IF currentNanoappIsStopping(S)
  THEN [ S EXCEPT !.ret = FALSE ]
  ELSE postEvent(S, 1, act.cb, S.cur, act.target)

\* the runtime calls made by the code that runs with mCurrentApp = S.cur
RunAct(S, act) ==
  IF ~act.post \/ Len(S.pool) >= MaxPosts THEN S
  ELSE IF S.cur = NoApp
       THEN postEvent(S, 1, act.cb, kSystemInstanceId, act.target)
       ELSE LET S1 == chreSendEvent(S, act)
                mayNotSend == S.cur = S.unloading \/ S.drain \/ ~S.running
            IN [ S1 EXCEPT
                   !.h.sentWhileStopping = @ \/ (mayNotSend /\ S1.ret),
                   !.h.last.refused =
                       @ \/ ( /\ S.h.last.op = "unloading"
                              /\ S.cur = S.unloading
                              /\ ~S1.ret ) ]

\* an entry point or callback is entered that belongs to the nanoapp with
\* instance id who (NoApp: to no nanoapp); hist.wrongCur records whether
\* mCurrentApp was ever something else at that moment
Entered(S, who) == [ S EXCEPT !.h.wrongCur = @ \/ S.cur # who ]

\* the nanoapp that sent event e if it is in the list, NoApp for the
\* system and for a sender that has left
SenderOf(S, e) ==
  LET sender == S.pool[e].senderInstanceId
  IN IF /\ sender # kSystemInstanceId
        /\ \E i \in 1..Len(S.apps) : S.apps[i].instanceId = sender
     THEN sender
     ELSE NoApp

freeEvent(S, e, act) ==
  LET S1 == IF S.pool[e].freeCallback
            THEN [ RunAct(Entered([ S EXCEPT !.cur = lookupAppByInstanceId(
                                        S.apps, S.pool[e].senderInstanceId) ],
                                  SenderOf(S, e)),
                          act) EXCEPT !.cur = NoApp ]
            ELSE S
  IN [ S1 EXCEPT !.pool[e] = Deallocated(S.pool[e], S.drain) ]

\* ------------------------------------------------------------- nanoapps
NewNanoapp(appId, instanceId, isSystem, reg) ==
  [ appId |-> appId, instanceId |-> instanceId, isSystem |-> isSystem,
    reg |-> reg, queue |-> << >> ]

hasPendingEvent(app) == app.queue # << >>

isRegisteredForBroadcastEvent(app, eventType) == eventType \in app.reg

\* fault variant: the event is put at the head of the nanoapp's queue
NanoappPostEvent_AtHead(S, i, e) ==
  [ S EXCEPT !.apps[i].queue = << e >> \o @,
             !.pool[e].mRefCount = @ + 1,
             !.pool[e].enq = @ \cup { S.apps[i].instanceId } ]

\* Nanoapp::postEvent: a reference is taken and the event joins the queue
NanoappPostEvent(S, i, e) ==
  [ S EXCEPT !.apps[i].queue = Append(@, e),
             !.pool[e].mRefCount = @ + 1,
             !.pool[e].enq = @ \cup { S.apps[i].instanceId } ]

\* fault variant: a broadcast event goes to every nanoapp, registered or not
Recipients_BroadcastToAll(apps, event) ==
  { i \in 1..Len(apps) :
      \/ event.targetInstanceId = kBroadcastInstanceId
      \/ event.targetInstanceId = apps[i].instanceId }

\* the nanoapps distributeEvent gives the event to
Recipients(apps, event) ==
  { i \in 1..Len(apps) :
      \/ /\ event.targetInstanceId = kBroadcastInstanceId
         /\ isRegisteredForBroadcastEvent(apps[i], event.eventType)
      \/ event.targetInstanceId = apps[i].instanceId }

RECURSIVE PostToEach(_, _, _, _)
PostToEach(S, e, i, to) ==
  IF i > Len(S.apps) THEN S
  ELSE PostToEach(IF i \in to THEN NanoappPostEvent(S, i, e) ELSE S,
                  e, i + 1, to)

distributeEvent(S, e, act) ==
  LET S1 == PostToEach([ S EXCEPT !.pool[e].distributed = TRUE ], e, 1,
                       Recipients(S.apps, S.pool[e]))
  IN IF isUnreferenced(S1.pool[e]) THEN freeEvent(S1, e, act) ELSE S1

\* events of the same sender and target as event e that wait for the
\* nanoapp at index i: in its queue, or accepted and in the inbound queue
SameFlowWaiting(S, i, e) ==
  { w \in 1..Len(S.pool) :
      /\ w # e
      /\ S.pool[w].live
      /\ S.pool[w].accepted
      /\ S.pool[w].senderInstanceId = S.pool[e].senderInstanceId
      /\ S.pool[w].targetInstanceId = S.pool[e].targetInstanceId
      /\ \/ \E k \in 1..Len(S.apps[i].queue) : S.apps[i].queue[k] = w
         \/ /\ \E k \in 1..Len(S.inb) : S.inb[k] = w
            /\ i \in Recipients(S.apps, S.pool[w]) }

\* Nanoapp::processNextEvent: pop, release the reference, call the handler
processNextEvent(S, i, e, act) ==
  LET id == S.apps[i].instanceId
      S1 == [ S EXCEPT !.apps[i].queue = Tail(@),
                       !.pool[e].mRefCount = @ - 1,
                       !.pool[e].deliv = @ \cup { id },
                       !.h.napp[id].mustDeliver = @ \ { e },
                       !.h.napp[id].handledAfterEnd =
                           @ \/ S.h.napp[id].ends > 0,
                       !.h.outOfOrder =
                           @ \/ \E w \in SameFlowWaiting(S, i, e) : w < e,
                       !.h.inOrder =
                           @ \/ \E w \in SameFlowWaiting(S, i, e) : w > e ]
  IN RunAct(Entered(S1, id), act)

\* fault variant: the handler is called without mCurrentApp being set
deliverNextEvent_NoCurrent(S, i, hAct, fAct) ==
  LET e == Head(S.apps[i].queue)
      S2 == [ processNextEvent(S, i, e, hAct) EXCEPT !.cur = NoApp ]
      S3 == IF isUnreferenced(S2.pool[e]) THEN freeEvent(S2, e, fAct) ELSE S2
  IN [ S3 EXCEPT !.ret = hasPendingEvent(S3.apps[i]) ]

\* returns (in .ret) whether the nanoapp still has a pending event
deliverNextEvent(S, i, hAct, fAct) ==
  LET e == Head(S.apps[i].queue)
      S1 == [ S EXCEPT !.cur = S.apps[i].instanceId ]
      S2 == [ processNextEvent(S1, i, e, hAct) EXCEPT !.cur = NoApp ]
      S3 == IF isUnreferenced(S2.pool[e]) THEN freeEvent(S2, e, fAct) ELSE S2
  IN [ S3 EXCEPT !.ret = hasPendingEvent(S3.apps[i]) ]

\* fault variant: only the nanoapp at index from is looked at
NextPending_OnlyFrom(apps, from) ==
  IF from <= Len(apps) /\ hasPendingEvent(apps[from]) THEN from ELSE 0

\* first nanoapp at or after index from that has a pending event, else 0
NextPending(apps, from) ==
  IF \E i \in from..Len(apps) : hasPendingEvent(apps[i])
  THEN CHOOSE i \in from..Len(apps) :
         /\ hasPendingEvent(apps[i])
         /\ \A j \in from..(i - 1) : ~hasPendingEvent(apps[j])
  ELSE 0

\* fault variant: the nanoapp is erased without its end entry point running
unloadNanoappAtIndex_NoEnd(S, index, act) ==
  [ S EXCEPT !.apps = RemoveAt(@, index) ]

unloadNanoappAtIndex(S, index, act) ==
  LET id == S.apps[index].instanceId
      S1 == [ S EXCEPT !.cur = id,
                       !.h.napp[id].ends = @ + 1,
                       !.h.napp[id].mustDeliver = {},
                       !.h.napp[id].missedAtEnd =
                           @ \/ S.h.napp[id].mustDeliver # {} ]
      S2 == [ RunAct(Entered(S1, id), act) EXCEPT !.cur = NoApp ]
  IN [ S2 EXCEPT !.apps = RemoveAt(@, index) ]

\* ------------------------------------------------ loop thread: run()
\* deliverEvents is entered with these nanoapps in the list
RoundStart(apps) ==
  [ start |-> { << apps[i].instanceId, Len(apps[i].queue) >> :
                i \in 1..Len(apps) },
    got |-> << >> ]

LoopUnchanged ==
  UNCHANGED << mRunning, nextInstanceId, stopPc, extPc, muxVars, wifiVars, sockVars >>

StartRound(ctx) ==
  /\ pc' = "deliver"
  /\ dctx' = ctx
  /\ appIdx' = 1
  /\ roundPending' = FALSE

\* deliverEvents has returned: its locals are gone
EndRound(to) ==
  /\ pc' = to
  /\ dctx' = "run"
  /\ appIdx' = 1
  /\ roundPending' = FALSE

\* while (mRunning), and the test that chooses between pop and deliver
RunCheck ==
  /\ pc = "check"
  /\ IF mRunning
     THEN IF ~havePendingEvents \/ mEvents # << >>
          THEN pc' = "pop" /\ UNCHANGED << dctx, appIdx, roundPending >>
          ELSE StartRound("run")
     ELSE StartRound("drain")
  /\ hist' = IF mRunning /\ (~havePendingEvents \/ mEvents # << >>)
             THEN hist
             ELSE [ hist EXCEPT !.round = RoundStart(mNanoapps) ]
  /\ UNCHANGED << mEvents, mEventPool, mNanoapps, mCurrentApp,
                  mStoppingNanoapp, havePendingEvents, unloadIdx, retPc >>
  /\ LoopUnchanged

\* distributeEvent(mEvents.pop()): the pop blocks while mEvents is empty
RunPop(act) ==
  /\ pc = "pop"
  /\ mEvents # << >>
  /\ LET S == distributeEvent([ Core EXCEPT !.inb = Tail(@) ],
                              Head(mEvents), act)
     IN SetCore([ S EXCEPT !.h.round = RoundStart(S.apps) ])
  /\ StartRound("run")
  /\ UNCHANGED << havePendingEvents, unloadIdx, retPc >>
  /\ LoopUnchanged

\* fault variant: the loop of deliverEvents starts again at the first
\* nanoapp after every delivery
DeliverOne_FromFirst(hAct, fAct) ==
  /\ pc = "deliver"
  /\ NextPending(mNanoapps, appIdx) # 0
  /\ LET i == NextPending(mNanoapps, appIdx)
         S == deliverNextEvent(Core, i, hAct, fAct)
     IN /\ SetCore([ S EXCEPT !.h.round.got =
                                  Append(@, mNanoapps[i].instanceId) ])
        /\ roundPending' = (roundPending \/ S.ret)
        /\ appIdx' = 1
  /\ UNCHANGED << pc, dctx, havePendingEvents, unloadIdx, retPc >>
  /\ LoopUnchanged

\* deliverEvents: one iteration of its loop that finds a pending event
DeliverOne(hAct, fAct) ==
  /\ pc = "deliver"
  /\ NextPending(mNanoapps, appIdx) # 0
  /\ LET i == NextPending(mNanoapps, appIdx)
         S == deliverNextEvent(Core, i, hAct, fAct)
     IN /\ SetCore([ S EXCEPT !.h.round.got =
                                  Append(@, mNanoapps[i].instanceId) ])
        /\ roundPending' = (roundPending \/ S.ret)
        /\ appIdx' = i + 1
  /\ UNCHANGED << pc, dctx, havePendingEvents, unloadIdx, retPc >>
  /\ LoopUnchanged

\* deliverEvents returns to run(), or to flushNanoappEventQueues, which
\* calls it again while it returns true
DeliverRoundEnd ==
  /\ pc = "deliver"
  /\ NextPending(mNanoapps, appIdx) = 0
  /\ IF dctx = "run"
     THEN /\ havePendingEvents' = roundPending
          /\ EndRound("check")
     ELSE /\ IF roundPending
             THEN StartRound(dctx)
             ELSE EndRound(IF dctx = "unload" THEN "u_end" ELSE "d_inbound")
          /\ UNCHANGED havePendingEvents
  /\ hist' = [ hist EXCEPT !.round = IF dctx # "run" /\ roundPending
                                     THEN RoundStart(mNanoapps)
                                     ELSE NoRound ]
  /\ UNCHANGED << mEvents, mEventPool, mNanoapps, mCurrentApp,
                  mStoppingNanoapp, unloadIdx, retPc >>
  /\ LoopUnchanged

\* fault variant: the shutdown drain pops the inbound events without
\* freeing them
DrainFree_PopOnly(act) ==
  /\ pc = "d_inbound"
  /\ mEvents # << >>
  /\ mEvents' = Tail(mEvents)
  /\ UNCHANGED << mEventPool, mNanoapps, mCurrentApp, mStoppingNanoapp, hist,
                  pc, dctx, appIdx, roundPending, havePendingEvents,
                  unloadIdx, retPc >>
  /\ LoopUnchanged

\* shutdown drain: while (!mEvents.empty()) freeEvent(mEvents.pop())
DrainFree(act) ==
  /\ pc = "d_inbound"
  /\ mEvents # << >>
  /\ SetCore(freeEvent([ Core EXCEPT
                          !.inb = Tail(@),
                          !.h.drainFreed =
                              @ \/ (mEventPool[Head(mEvents)].accepted
                                      /\ mEventPool[Head(mEvents)].preStop) ],
                       Head(mEvents), act))
  /\ UNCHANGED << pc, dctx, appIdx, roundPending, havePendingEvents,
                  unloadIdx, retPc >>
  /\ LoopUnchanged

DrainFreeDone ==
  /\ pc = "d_inbound"
  /\ mEvents = << >>
  /\ pc' = "d_unload"
  /\ UNCHANGED << mEvents, mEventPool, mNanoapps, mCurrentApp,
                  mStoppingNanoapp, hist, dctx, appIdx, roundPending,
                  havePendingEvents, unloadIdx, retPc >>
  /\ LoopUnchanged

\* fault variant: the shutdown drain unloads the first nanoapp of the list
DrainUnload_FromFront(act) ==
  /\ pc = "d_unload"
  /\ mNanoapps # << >>
  /\ SetCore(unloadNanoappAtIndex(Core, 1, act))
  /\ UNCHANGED << pc, dctx, appIdx, roundPending, havePendingEvents,
                  unloadIdx, retPc >>
  /\ LoopUnchanged

\* shutdown drain: while (!mNanoapps.empty()) unloadNanoappAtIndex(size - 1)
DrainUnload(act) ==
  /\ pc = "d_unload"
  /\ mNanoapps # << >>
  /\ SetCore(unloadNanoappAtIndex(Core, Len(mNanoapps), act))
  /\ UNCHANGED << pc, dctx, appIdx, roundPending, havePendingEvents,
                  unloadIdx, retPc >>
  /\ LoopUnchanged

\* run() returns
RunReturn ==
  /\ pc = "d_unload"
  /\ mNanoapps = << >>
  /\ pc' = "done"
  /\ UNCHANGED << mEvents, mEventPool, mNanoapps, mCurrentApp,
                  mStoppingNanoapp, hist, dctx, appIdx, roundPending,
                  havePendingEvents, unloadIdx, retPc >>
  /\ LoopUnchanged

\* ------------------------------------- loop thread: startNanoapp
\* The whole of startNanoapp, called on the loop thread before run()'s
\* loop or between two of its iterations. allocOk is the result of
\* mNanoapps.prepareForPush(), startRet the result of the nanoapp's start
\* entry point, reg the broadcast event types start registers for, act what
\* start does with the runtime.
\* fault variant: no test for an existing nanoapp with the same app id
startNanoapp_NoDupCheck(S, app, instanceId, startRet, allocOk, act) ==
  LET S1 == [ S EXCEPT !.apps = Append(@, NewNanoapp(app.appId, instanceId,
                                             app.isSystem, app.reg)),
                       !.cur = instanceId,
                       !.h.napp[instanceId].started = TRUE,
                       !.h.napp[instanceId].startRet = startRet ]
      S2 == [ RunAct(S1, act) EXCEPT !.cur = NoApp ]
      Log(why, ret) == [ NoCall EXCEPT !.op = "start", !.why = why,
                                       !.ret = ret ]
  IN IF ~allocOk
     THEN [ S EXCEPT !.ret = FALSE, !.h.last = Log("nomem", FALSE) ]
     ELSE IF startRet
     THEN [ S2 EXCEPT !.ret = TRUE, !.h.last = Log("ok", TRUE) ]
     ELSE [ S2 EXCEPT !.apps = SubSeq(@, 1, Len(@) - 1),
                      !.ret = FALSE, !.h.last = Log("failed", FALSE) ]

\* fault variant: a nanoapp whose start returned false stays in the list
startNanoapp_NoPopBack(S, app, instanceId, startRet, allocOk, act) ==
  LET S1 == [ S EXCEPT !.apps = Append(@, NewNanoapp(app.appId, instanceId,
                                             app.isSystem, app.reg)),
                       !.cur = instanceId,
                       !.h.napp[instanceId].started = TRUE,
                       !.h.napp[instanceId].startRet = startRet ]
      S2 == [ RunAct(S1, act) EXCEPT !.cur = NoApp ]
      Log(why, ret) == [ NoCall EXCEPT !.op = "start", !.why = why,
                                       !.ret = ret ]
  IN IF lookupAppByAppId(S.apps, app.appId) # 0
     THEN [ S EXCEPT !.ret = FALSE, !.h.last = Log("dup", FALSE) ]
     ELSE IF ~allocOk
     THEN [ S EXCEPT !.ret = FALSE, !.h.last = Log("nomem", FALSE) ]
     ELSE IF startRet
     THEN [ S2 EXCEPT !.ret = TRUE, !.h.last = Log("ok", TRUE) ]
     ELSE [ S2 EXCEPT !.ret = FALSE, !.h.last = Log("failed", FALSE) ]

startNanoapp(S, app, instanceId, startRet, allocOk, act) ==
  LET S1 == [ S EXCEPT !.apps = Append(@, NewNanoapp(app.appId, instanceId,
                                             app.isSystem, app.reg)),
                       !.cur = instanceId,
                       !.h.napp[instanceId].started = TRUE,
                       !.h.napp[instanceId].startRet = startRet ]
      S2 == [ RunAct(Entered(S1, instanceId), act) EXCEPT !.cur = NoApp ]
      Log(why, ret) == [ NoCall EXCEPT !.op = "start", !.why = why,
                                       !.ret = ret ]
  IN IF lookupAppByAppId(S.apps, app.appId) # 0
     THEN [ S EXCEPT !.ret = FALSE, !.h.last = Log("dup", FALSE) ]
     ELSE IF ~allocOk
     THEN [ S EXCEPT !.ret = FALSE, !.h.last = Log("nomem", FALSE) ]
     ELSE IF startRet
     THEN [ S2 EXCEPT !.ret = TRUE, !.h.last = Log("ok", TRUE) ]
     ELSE [ S2 EXCEPT !.apps = SubSeq(@, 1, Len(@) - 1),
                      !.ret = FALSE, !.h.last = Log("failed", FALSE) ]

StartNanoapp(app, startRet, allocOk, act) ==
  /\ pc = "check"
  /\ nextInstanceId <= MaxInstances
  /\ LET S == startNanoapp(Core, app, nextInstanceId, startRet, allocOk, act)
     IN /\ SetCore(S)
        /\ nextInstanceId' = IF S.h.last.why \in {"ok", "failed"}
                             THEN nextInstanceId + 1
                             ELSE nextInstanceId
  /\ UNCHANGED << mRunning, pc, dctx, appIdx, roundPending,
                  havePendingEvents, unloadIdx, retPc, stopPc, extPc,
                  muxVars, wifiVars, sockVars >>

\* ------------------------------------- loop thread: unloadNanoapp
\* events waiting for the nanoapp at index i: in its queue, or in the
\* inbound queue and due to be given to it
WaitingFor(S, i) ==
  { S.apps[i].queue[k] : k \in 1..Len(S.apps[i].queue) } \cup
  { e \in { S.inb[k] : k \in 1..Len(S.inb) } :
      i \in Recipients(S.apps, S.pool[e]) }

\* an event sent by this instance is still in some queue
SentBy(S, instanceId) ==
  { e \in 1..Len(S.pool) :
      /\ S.pool[e].senderInstanceId = instanceId
      /\ \/ \E k \in 1..Len(S.inb) : S.inb[k] = e
         \/ \E i \in 1..Len(S.apps) :
              \E k \in 1..Len(S.apps[i].queue) : S.apps[i].queue[k] = e }

\* fault variant: a system nanoapp is unloaded without the override
UnloadBegin_NoSystemCheck(instanceId, allowSystemNanoappUnload) ==
  /\ pc = "check"
  /\ LET i == IndexOfInstance(mNanoapps, instanceId)
         Log(why) == [ NoCall EXCEPT !.op = "unload", !.why = why ]
     IN IF i = 0
        THEN /\ hist' = [ hist EXCEPT !.last = Log("missing") ]
             /\ UNCHANGED << pc, unloadIdx, retPc >>
        ELSE /\ hist' = [ hist EXCEPT
                            !.napp[instanceId].mustDeliver =
                                WaitingFor(Core, i),
                            !.last = [ NoCall EXCEPT
                                !.op = "unloading",
                                !.waited = WaitingFor(Core, i) # {},
                                !.sent = SentBy(Core, instanceId) # {} ] ]
             /\ pc' = "u_inbound"
             /\ unloadIdx' = i
             /\ retPc' = pc
  /\ UNCHANGED << mEvents, mEventPool, mNanoapps, mCurrentApp,
                  mStoppingNanoapp, dctx, appIdx, roundPending,
                  havePendingEvents >>
  /\ LoopUnchanged

\* unloadNanoapp up to its first flush; called on the loop thread before
\* run()'s loop or between two of its iterations
UnloadBegin(instanceId, allowSystemNanoappUnload) ==
  /\ pc = "check"
  /\ LET i == IndexOfInstance(mNanoapps, instanceId)
         Log(why) == [ NoCall EXCEPT !.op = "unload", !.why = why ]
     IN IF i = 0
        THEN /\ hist' = [ hist EXCEPT !.last = Log("missing") ]
             /\ UNCHANGED << pc, unloadIdx, retPc >>
        ELSE IF ~allowSystemNanoappUnload /\ mNanoapps[i].isSystem
        THEN /\ hist' = [ hist EXCEPT !.last = Log("system") ]
             /\ UNCHANGED << pc, unloadIdx, retPc >>
        ELSE /\ hist' = [ hist EXCEPT
                            !.napp[instanceId].mustDeliver =
                                WaitingFor(Core, i),
                            !.last = [ NoCall EXCEPT
                                !.op = "unloading",
                                !.waited = WaitingFor(Core, i) # {},
                                !.sent = SentBy(Core, instanceId) # {} ] ]
             /\ pc' = "u_inbound"
             /\ unloadIdx' = i
             /\ retPc' = pc
  /\ UNCHANGED << mEvents, mEventPool, mNanoapps, mCurrentApp,
                  mStoppingNanoapp, dctx, appIdx, roundPending,
                  havePendingEvents >>
  /\ LoopUnchanged

\* flushInboundEventQueue: one iteration
UnloadFlushInbound(act) ==
  /\ pc = "u_inbound"
  /\ mEvents # << >>
  /\ SetCore(distributeEvent([ Core EXCEPT !.inb = Tail(@) ],
                             Head(mEvents), act))
  /\ UNCHANGED << pc, dctx, appIdx, roundPending, havePendingEvents,
                  unloadIdx, retPc >>
  /\ LoopUnchanged

\* the inbound queue is empty: mark the nanoapp as stopping and start
\* flushNanoappEventQueues
\* fault variant: the nanoapp being unloaded is not marked as stopping
MarkStopping_NoMark(S, index) == S

MarkStopping(S, index) == [ S EXCEPT !.stopping = S.apps[index].instanceId ]

\* fault variant: the nanoapps' queues are not flushed before the unload
UnloadMarkStopping_NoFlush ==
  /\ pc = "u_inbound"
  /\ mEvents = << >>
  /\ SetCore(MarkStopping(Core, unloadIdx))
  /\ pc' = "u_end"
  /\ UNCHANGED << dctx, appIdx, roundPending, havePendingEvents, unloadIdx,
                  retPc >>
  /\ LoopUnchanged

UnloadMarkStopping ==
  /\ pc = "u_inbound"
  /\ mEvents = << >>
  /\ SetCore([ MarkStopping(Core, unloadIdx)
                 EXCEPT !.h.round = RoundStart(mNanoapps) ])
  /\ StartRound("unload")
  /\ UNCHANGED << havePendingEvents, unloadIdx, retPc >>
  /\ LoopUnchanged

\* unloadNanoappAtIndex(i), the marker is cleared, unloadNanoapp returns
UnloadEnd(act) ==
  /\ pc = "u_end"
  /\ LET id == mNanoapps[unloadIdx].instanceId
         S == [ unloadNanoappAtIndex(Core, unloadIdx, act)
                  EXCEPT !.stopping = NoApp ]
     IN SetCore([ S EXCEPT
           !.h.last = [ hist.last EXCEPT !.op = "unload", !.why = "ok",
                                         !.ret = TRUE ],
           !.h.senderLeft = @ \/ SentBy(S, id) # {} ])
  /\ pc' = retPc
  /\ unloadIdx' = 0
  /\ retPc' = "check"
  /\ UNCHANGED << dctx, appIdx, roundPending, havePendingEvents >>
  /\ LoopUnchanged

\* ------------------------------------------------- stop thread: stop()
\* postEvent(0, nullptr, nullptr, kSystemInstanceId, kSystemInstanceId)
StopPost ==
  /\ stopPc = "idle"
  /\ LET S == postEvent([ Core EXCEPT !.h.stopCalled = TRUE ], 0, FALSE,
                        kSystemInstanceId, kSystemInstanceId)
     IN SetCore([ S EXCEPT !.h.last = PostLog(S.ret) ])
  /\ stopPc' = "posted"
  /\ UNCHANGED << mRunning, nextInstanceId, pc, dctx, appIdx, roundPending,
                  havePendingEvents, unloadIdx, retPc, extPc, muxVars, wifiVars, sockVars >>

\* mRunning = false
StopClear ==
  /\ stopPc = "posted"
  /\ mRunning' = FALSE
  /\ stopPc' = "done"
  /\ UNCHANGED << mEvents, mEventPool, mNanoapps, mCurrentApp,
                  mStoppingNanoapp, nextInstanceId, pc, dctx, appIdx,
                  roundPending, havePendingEvents, unloadIdx, retPc, extPc,
                  hist, muxVars, wifiVars, sockVars >>

\* ------------------------------------ platform thread: postEvent()
\* if (mRunning): the flag is read; stop() may run before the next step
ExtPostCheck ==
  /\ extPc = "idle"
  /\ Len(mEventPool) < MaxPosts
  /\ IF mRunning
     THEN extPc' = "push" /\ UNCHANGED hist
     ELSE hist' = [ hist EXCEPT !.last = PostLog(FALSE) ] /\ UNCHANGED extPc
  /\ UNCHANGED << mRunning, mEvents, mEventPool, mNanoapps, mCurrentApp,
                  mStoppingNanoapp, nextInstanceId, pc, dctx, appIdx,
                  roundPending, havePendingEvents, unloadIdx, retPc, stopPc,
                  muxVars, wifiVars, sockVars >>

\* mEventPool.allocate and mEvents.push, for the event the caller posts
ExtPostPush(post) ==
  /\ extPc = "push"
  /\ LET S == AllocateAndPush(Core, 1, post.cb, kSystemInstanceId,
                              post.target)
     IN /\ mEvents' = S.inb
        /\ mEventPool' = S.pool
        /\ hist' = [ hist EXCEPT !.last = PostLog(S.ret) ]
  /\ extPc' = "idle"
  /\ UNCHANGED << mRunning, mNanoapps, mCurrentApp, mStoppingNanoapp,
                  nextInstanceId, pc, dctx, appIdx, roundPending,
                  havePendingEvents, unloadIdx, retPc, stopPc, muxVars, wifiVars, sockVars >>

\* ------------------------------------------------------- specification
Next ==
  \/ RunCheck
  \/ \E act \in Acts : RunPop(act)
  \/ \E hAct \in Acts, fAct \in Acts : DeliverOne(hAct, fAct)
  \/ DeliverRoundEnd
  \/ \E act \in Acts : DrainFree(act)
  \/ DrainFreeDone
  \/ \E act \in Acts : DrainUnload(act)
  \/ RunReturn
  \/ \E app \in Catalogue, startRet \in BOOLEAN, allocOk \in BOOLEAN,
        act \in Acts :
       StartNanoapp(app, startRet, allocOk, act)
  \/ \E instanceId \in InstanceIds, allow \in BOOLEAN :
       UnloadBegin(instanceId, allow)
  \/ \E act \in Acts : UnloadFlushInbound(act)
  \/ UnloadMarkStopping
  \/ \E act \in Acts : UnloadEnd(act)
  \/ StopPost
  \/ StopClear
  \/ ExtPostCheck
  \/ \E post \in ExtPosts : ExtPostPush(post)

Spec == Init /\ [][Next]_vars

\* ------------------------------------------- bounded nanoapp queues
\* Nanoapp::postEvent when the nanoapp's queue has a capacity: a push onto
\* a full queue fails, no reference is taken, and distributeEvent, which
\* does not look at the result, goes on
MaxNanoappQueue == 1

NanoappPostEventBounded(S, i, e) ==
  IF Len(S.apps[i].queue) >= MaxNanoappQueue
  THEN S
  ELSE NanoappPostEvent(S, i, e)

RECURSIVE PostToEachBounded(_, _, _, _)
PostToEachBounded(S, e, i, to) ==
  IF i > Len(S.apps) THEN S
  ELSE PostToEachBounded(IF i \in to THEN NanoappPostEventBounded(S, i, e)
                                     ELSE S,
                         e, i + 1, to)

distributeEventBounded(S, e, act) ==
  LET S1 == PostToEachBounded([ S EXCEPT !.pool[e].distributed = TRUE ], e,
                              1, Recipients(S.apps, S.pool[e]))
  IN IF isUnreferenced(S1.pool[e]) THEN freeEvent(S1, e, act) ELSE S1

RunPopBounded(act) ==
  /\ pc = "pop"
  /\ mEvents # << >>
  /\ LET S == distributeEventBounded([ Core EXCEPT !.inb = Tail(@) ],
                                     Head(mEvents), act)
     IN SetCore([ S EXCEPT !.h.round = RoundStart(S.apps) ])
  /\ StartRound("run")
  /\ UNCHANGED << havePendingEvents, unloadIdx, retPc >>
  /\ LoopUnchanged

UnloadFlushInboundBounded(act) ==
  /\ pc = "u_inbound"
  /\ mEvents # << >>
  /\ SetCore(distributeEventBounded([ Core EXCEPT !.inb = Tail(@) ],
                                    Head(mEvents), act))
  /\ UNCHANGED << pc, dctx, appIdx, roundPending, havePendingEvents,
                  unloadIdx, retPc >>
  /\ LoopUnchanged

NextBounded ==
  \/ RunCheck
  \/ \E act \in Acts : RunPopBounded(act)
  \/ \E hAct \in Acts, fAct \in Acts : DeliverOne(hAct, fAct)
  \/ DeliverRoundEnd
  \/ \E act \in Acts : DrainFree(act)
  \/ DrainFreeDone
  \/ \E act \in Acts : DrainUnload(act)
  \/ RunReturn
  \/ \E app \in Catalogue, startRet \in BOOLEAN, allocOk \in BOOLEAN,
        act \in Acts :
       StartNanoapp(app, startRet, allocOk, act)
  \/ \E instanceId \in InstanceIds, allow \in BOOLEAN :
       UnloadBegin(instanceId, allow)
  \/ \E act \in Acts : UnloadFlushInboundBounded(act)
  \/ UnloadMarkStopping
  \/ \E act \in Acts : UnloadEnd(act)
  \/ StopPost
  \/ StopClear
  \/ ExtPostCheck
  \/ \E post \in ExtPosts : ExtPostPush(post)

\* the event loop with nanoapp queues of capacity MaxNanoappQueue
SpecBounded == Init /\ [][NextBounded]_vars

\* The loop thread can take a step of run() (its rounds and its shutdown
\* drain) or of an unloadNanoapp under way: it has not returned from run()
\* and is not waiting in the pop for an event to arrive.
LoopReady == pc # "done" /\ ~(pc = "pop" /\ mEvents = << >>)

\* a step of run() or of an unloadNanoapp under way, told by what only the
\* loop thread does: it moves on in its code (the call of unloadNanoapp,
\* from "check" to "u_inbound", is a request and not counted), moves on in
\* the nanoapp list, pops an event in one of the two flushes of mEvents, or
\* unloads a nanoapp in the shutdown drain
LoopStep ==
  \/ pc' # pc /\ ~(pc = "check" /\ pc' = "u_inbound")
  \/ appIdx' # appIdx
  \/ /\ pc \in { "d_inbound", "u_inbound" }
     /\ mEvents # << >>
     /\ mEvents' = Tail(mEvents)
  \/ pc = "d_unload" /\ Len(mNanoapps') < Len(mNanoapps)

\* the loop thread is scheduled: weak fairness of its steps, written out as
\* "infinitely often not ready or infinitely often a step". Handlers and
\* callbacks return; nothing is assumed of the other threads.
SpecLoopFair == Spec /\ ([]<>(~LoopReady) \/ []<><<LoopStep>>_vars)

\* =============================================================== requests
\* std::min and std::max
min(a, b) == IF b < a THEN b ELSE a
max(a, b) == IF a < b THEN b ELSE a

\* ---------------------------------------------------------- SensorRequest
\* enum class SensorMode
SensorModes == { "Off", "PassiveOneShot", "PassiveContinuous",
                 "ActiveOneShot", "ActiveContinuous" }

\* SensorRequest(mode, interval, latency); interval and latency in
\* milliseconds
SensorRequest(mode, interval, latency) ==
  [ mInterval |-> interval, mLatency |-> latency, mMode |-> mode ]

\* SensorRequest(): mode Off, interval 0, latency 0
SensorRequest_Default == SensorRequest("Off", 0, 0)

SensorRequest_isEquivalentTo(this, request) ==
  /\ this.mMode = request.mMode
  /\ this.mInterval = request.mInterval
  /\ this.mLatency = request.mLatency

\* fault variant: the larger latency is kept
SensorRequest_generateIntersectionOf_MaxLatency(this, request) ==
  SensorRequest(IF "ActiveContinuous" \in { this.mMode, request.mMode }
                THEN "ActiveContinuous"
                ELSE IF "ActiveOneShot" \in { this.mMode, request.mMode }
                THEN "ActiveOneShot"
                ELSE IF "PassiveContinuous" \in { this.mMode, request.mMode }
                THEN "PassiveContinuous"
                ELSE IF "PassiveOneShot" \in { this.mMode, request.mMode }
                THEN "PassiveOneShot"
                ELSE "Off",
                min(this.mInterval, request.mInterval),
                max(this.mLatency, request.mLatency))

\* fault variant: the interval of the request merged into is kept
SensorRequest_generateIntersectionOf_OwnInterval(this, request) ==
  SensorRequest(IF "ActiveContinuous" \in { this.mMode, request.mMode }
                THEN "ActiveContinuous"
                ELSE IF "ActiveOneShot" \in { this.mMode, request.mMode }
                THEN "ActiveOneShot"
                ELSE IF "PassiveContinuous" \in { this.mMode, request.mMode }
                THEN "PassiveContinuous"
                ELSE IF "PassiveOneShot" \in { this.mMode, request.mMode }
                THEN "PassiveOneShot"
                ELSE "Off",
                this.mInterval,
                min(this.mLatency, request.mLatency))

SensorRequest_generateIntersectionOf(this, request) ==
  LET minimalInterval == min(this.mInterval, request.mInterval)
      minimalLatency == min(this.mLatency, request.mLatency)
      maximalSensorMode ==
        IF this.mMode = "ActiveContinuous"
             \/ request.mMode = "ActiveContinuous"
        THEN "ActiveContinuous"
        ELSE IF this.mMode = "ActiveOneShot"
                  \/ request.mMode = "ActiveOneShot"
        THEN "ActiveOneShot"
        ELSE IF this.mMode = "PassiveContinuous"
                  \/ request.mMode = "PassiveContinuous"
        THEN "PassiveContinuous"
        ELSE IF this.mMode = "PassiveOneShot"
                  \/ request.mMode = "PassiveOneShot"
        THEN "PassiveOneShot"
        ELSE "Off"
  IN SensorRequest(maximalSensorMode, minimalInterval, minimalLatency)

\* ----------------------------------------------------------- DummyRequest
\* the request type of the multiplexer's tests
DummyRequest(priority) == [ mPriority |-> priority ]

\* DummyRequest(): priority 0
DummyRequest_Default == DummyRequest(0)

\* fault variant: no two requests are equivalent
DummyRequest_isEquivalentTo_Never(this, request) == FALSE

DummyRequest_isEquivalentTo(this, request) ==
  this.mPriority = request.mPriority

DummyRequest_generateIntersectionOf(this, request) ==
  DummyRequest(max(this.mPriority, request.mPriority))

\* ------------------------------------------- RequestMultiplexer<RequestType>
\* The template's use of its parameter T: RequestType(),
\* isEquivalentTo and generateIntersectionOf.
DefaultRequest(T) ==
  IF T = "DummyRequest" THEN DummyRequest_Default ELSE SensorRequest_Default

isEquivalentTo(T, this, request) ==
  IF T = "DummyRequest"
  THEN DummyRequest_isEquivalentTo(this, request)
  ELSE SensorRequest_isEquivalentTo(this, request)

generateIntersectionOf(T, this, request) ==
  IF T = "DummyRequest"
  THEN DummyRequest_generateIntersectionOf(this, request)
  ELSE SensorRequest_generateIntersectionOf(this, request)

\* the requests from index i on, merged one after the other into
\* maximalRequest
RECURSIVE MergeFrom(_, _, _, _)
MergeFrom(T, requests, i, maximalRequest) ==
  IF i > Len(requests) THEN maximalRequest
  ELSE MergeFrom(T, requests, i + 1,
                 generateIntersectionOf(T, maximalRequest, requests[i]))

\* the maximal is computed anew from the default request; changed tells
\* whether it is not equivalent to the one held before
updateMaximalRequest(T, requests, current) ==
  LET maximalRequest == MergeFrom(T, requests, 1, DefaultRequest(T))
  IN [ requests |-> requests, maximal |-> maximalRequest,
       changed |-> ~isEquivalentTo(T, current, maximalRequest) ]

addRequest(T, M, request) ==
  updateMaximalRequest(T, Append(M.requests, request), M.maximal)

\* fault variant: the request is erased and the maximal is left as it was
removeRequest_NoUpdate(T, M, index) ==
  [ requests |-> RemoveAt(M.requests, index), maximal |-> M.maximal,
    changed |-> FALSE ]

removeRequest(T, M, index) ==
  updateMaximalRequest(T, RemoveAt(M.requests, index), M.maximal)

updateRequest(T, M, index, request) ==
  updateMaximalRequest(T, [ M.requests EXCEPT ![index] = request ],
                       M.maximal)

\* ------------------------------------------------- multiplexer: actions
\* number of requests a multiplexer holds at most
MaxRequests == 4
\* the priorities of the DummyRequests added
DummyPriorities == { 0, 1, 5, 10 }
DummyRequests == { DummyRequest(p) : p \in DummyPriorities }
\* the SensorRequests a sensor's multiplexer is given
MuxSensorRequests ==
  { SensorRequest(m, i, l) : m \in { "ActiveContinuous", "PassiveOneShot" },
                             i \in { 10, 20 }, l \in { 50, 100 } }

Mux == [ requests |-> mRequests, maximal |-> mCurrentMaximalRequest ]

\* the multiplexer takes the result R of a call; before is the maximal
\* the call found, request the request added, removed or put in place
SetMux(R, op, request) ==
  /\ mRequests' = R.requests
  /\ mCurrentMaximalRequest' = R.maximal
  /\ maximalRequestChanged' = R.changed
  /\ muxCall' = [ op |-> op, before |-> mCurrentMaximalRequest,
                  request |-> request ]
  /\ UNCHANGED << operands, mergedRequest, loopVars, wifiVars, sockVars >>

AddRequest(T, request) ==
  /\ Len(mRequests) < MaxRequests
  /\ SetMux(addRequest(T, Mux, request), "add", request)

\* index counts from 1; the code's index is one less
RemoveRequest(T, index) ==
  /\ index <= Len(mRequests)
  /\ SetMux(removeRequest(T, Mux, index), "remove", mRequests[index])

UpdateRequest(T, index, request) ==
  /\ index <= Len(mRequests)
  /\ SetMux(updateRequest(T, Mux, index, request), "update", request)

\* RequestMultiplexer(): no requests, mCurrentMaximalRequest as RequestType()
MuxInit(T) ==
  /\ mRequests = << >>
  /\ mCurrentMaximalRequest = DefaultRequest(T)
  /\ maximalRequestChanged = FALSE
  /\ muxCall = NoMuxCall

\* a RequestMultiplexer<DummyRequest>
InitMux ==
  LoopInit /\ MuxInit("DummyRequest") /\ MergeIdle /\ WifiInit /\ SockInit

NextMux ==
  \/ \E request \in DummyRequests : AddRequest("DummyRequest", request)
  \/ \E index \in 1..MaxRequests : RemoveRequest("DummyRequest", index)
  \/ \E index \in 1..MaxRequests, request \in DummyRequests :
       UpdateRequest("DummyRequest", index, request)

SpecMux == InitMux /\ [][NextMux]_vars

\* a sensor's RequestMultiplexer<SensorRequest>
InitSensorMux ==
  LoopInit /\ MuxInit("SensorRequest") /\ MergeIdle /\ WifiInit /\ SockInit

NextSensorMux ==
  \/ \E request \in MuxSensorRequests : AddRequest("SensorRequest", request)
  \/ \E index \in 1..MaxRequests : RemoveRequest("SensorRequest", index)
  \/ \E index \in 1..MaxRequests, request \in MuxSensorRequests :
       UpdateRequest("SensorRequest", index, request)

SpecSensorMux == InitSensorMux /\ [][NextSensorMux]_vars

\* ------------------------------------------------ merging SensorRequests
\* the intervals and latencies of the requests merged
Intervals == { 0, 10, 20 }
Latencies == { 0, 50, 100 }
MergeRequests ==
  { SensorRequest(m, i, l) : m \in SensorModes, i \in Intervals,
                             l \in Latencies }

\* three requests a, b and c are chosen
InitMerge ==
  /\ LoopInit
  /\ MuxAbsent
  /\ operands \in MergeRequests \X MergeRequests \X MergeRequests
  /\ mergedRequest = << >>
  /\ WifiInit
  /\ SockInit

\* generateIntersectionOf is applied to the operands, to each of them and
\* itself, and to each of them and the default request
Merge ==
  /\ mergedRequest = << >>
  /\ LET a == operands[1]
         b == operands[2]
         c == operands[3]
         ab == SensorRequest_generateIntersectionOf(a, b)
         bc == SensorRequest_generateIntersectionOf(b, c)
     IN mergedRequest' =
          [ ab |-> ab,
            ba |-> SensorRequest_generateIntersectionOf(b, a),
            ab_c |-> SensorRequest_generateIntersectionOf(ab, c),
            a_bc |-> SensorRequest_generateIntersectionOf(a, bc),
            aa |-> SensorRequest_generateIntersectionOf(a, a),
            aDefault |-> SensorRequest_generateIntersectionOf(
                           a, SensorRequest_Default),
            defaultA |-> SensorRequest_generateIntersectionOf(
                           SensorRequest_Default, a) ]
  /\ UNCHANGED << operands, mRequests, mCurrentMaximalRequest,
                  maximalRequestChanged, muxCall, loopVars, wifiVars, sockVars >>

SpecMerge == InitMerge /\ [][Merge]_vars

\* ===================================================== WifiRequestManager
\* ---------------------------------------------------------------- bounds
\* capacity of mScanMonitorStateTransitions
MaxScanMonitorStateTransitions == 2
\* total number of configureScanMonitor calls in one behaviour
MaxConfigureCalls == 3

\* ------------------------------------------------------------- constants
CHRE_ERROR_NONE == 0
CHRE_ERROR == 1
ErrorCodes == { CHRE_ERROR_NONE, CHRE_ERROR }
\* the instance ids of the nanoapps that call configureScanMonitor
WifiApps == { 1, 2 }

\* What the environment decides during one call: whether the driver accepts
\* a configureScanMonitor call (driverOk), whether memory can be allocated
\* and the event posted (memOk), and whether an erase beyond the end of
\* mScanMonitorNanoapps fails an assertion or does nothing (eraseAbort).
WifiInputs == [ driverOk : BOOLEAN, memOk : BOOLEAN, eraseAbort : BOOLEAN ]

\* The manager's state as one record, so that nested calls compose; ret is
\* the value the latest call returned.
Wifi == [ apps |-> mScanMonitorNanoapps,
          trans |-> mScanMonitorStateTransitions,
          inFlight |-> driverInFlight, h |-> wifiHist, ret |-> FALSE ]

SetWifi(W) ==
  /\ mScanMonitorNanoapps' = W.apps
  /\ mScanMonitorStateTransitions' = W.trans
  /\ driverInFlight' = W.inFlight
  /\ wifiHist' = W.h

Alive(W) == W.h.dead = "none"

\* DynamicVector::find: the index of the element, counted from 0, or the
\* size of the vector when it has no such element
find(seq, x) ==
  IF \E i \in 1..Len(seq) : seq[i] = x
  THEN (CHOOSE i \in 1..Len(seq) :
          seq[i] = x /\ \A j \in 1..(i - 1) : seq[j] # x) - 1
  ELSE Len(seq)

\* DynamicVector::erase(index), index counted from 0. An index beyond the
\* end fails the vector's assertion or is ignored.
erase(W, index, in) ==
  IF index < Len(W.apps)
  THEN [ W EXCEPT !.apps = RemoveAt(@, index + 1) ]
  ELSE IF in.eraseAbort THEN [ W EXCEPT !.h.dead = "assert" ] ELSE W

scanMonitorIsEnabled(apps) == apps # << >>

\* returns [has, index]: hasScanMonitorRequest and *nanoappIndex
nanoappHasScanMonitorRequest(apps, instanceId) ==
  LET index == find(apps, instanceId)
  IN [ has |-> (index = Len(apps)), index |-> index ]

scanMonitorIsInRequestedState(apps, requestedState, nanoappHasRequest) ==
  \/ requestedState = scanMonitorIsEnabled(apps)
  \/ /\ ~requestedState
     /\ (~nanoappHasRequest \/ Len(apps) > 1)

scanMonitorStateTransitionIsRequired(apps, requestedState, nanoappHasRequest) ==
  \/ requestedState /\ apps = << >>
  \/ ~requestedState /\ nanoappHasRequest /\ Len(apps) = 1

addScanMonitorRequestToQueue(W, instanceId, enable, cookie) ==
  IF Len(W.trans) < MaxScanMonitorStateTransitions
  THEN [ W EXCEPT !.trans = Append(@, [ nanoappInstanceId |-> instanceId,
                                        cookie |-> cookie,
                                        enable |-> enable ]),
                  !.ret = TRUE ]
  ELSE [ W EXCEPT !.ret = FALSE ]

\* push_back succeeds into the space reserved by the constructor, and
\* beyond it when memory can be allocated
updateNanoappScanMonitoringList(W, enable, instanceId, in) ==
  LET r == nanoappHasScanMonitorRequest(W.apps, instanceId)
      hasExistingRequest == r.has
  IN IF enable
     THEN IF ~hasExistingRequest
          THEN IF W.apps = << >> \/ in.memOk
               THEN [ W EXCEPT !.apps = Append(@, instanceId), !.ret = TRUE ]
               ELSE [ W EXCEPT !.ret = FALSE ]
          ELSE [ W EXCEPT !.ret = TRUE ]
     ELSE IF ~hasExistingRequest
          THEN [ W EXCEPT !.ret = FALSE ]
          ELSE [ erase(W, r.index, in) EXCEPT !.ret = TRUE ]

\* the event posted: counted for the call whose cookie it carries
PostResult(W, instanceId, success, enable, errorCode, cookie) ==
  [ W EXCEPT !.h.calls[cookie].results = @ + 1,
             !.h.calls[cookie].success = success,
             !.h.calls[cookie].errorCode = errorCode,
             !.h.calls[cookie].to = instanceId,
             !.h.granted = IF ~success THEN @
                           ELSE IF enable THEN @ \cup { instanceId }
                           ELSE @ \ { instanceId },
             !.ret = TRUE ]

postScanMonitorAsyncResultEvent(W, nanoappInstanceId, success, enable, errorCode, cookie, in) ==
  LET W1 == IF success
            THEN updateNanoappScanMonitoringList(W, enable,
                                                 nanoappInstanceId, in)
            ELSE W
  IN IF ~Alive(W1) THEN W1
     ELSE IF ~success \/ W1.ret
     THEN IF in.memOk
          THEN PostResult(W1, nanoappInstanceId, success, enable, errorCode,
                          cookie)
          ELSE [ W1 EXCEPT !.ret = FALSE ]
     ELSE [ W1 EXCEPT !.ret = FALSE ]

postScanMonitorAsyncResultEventFatal(W, nanoappInstanceId, success, enable, errorCode, cookie, in) ==
  LET W1 == postScanMonitorAsyncResultEvent(W, nanoappInstanceId, success,
                                            enable, errorCode, cookie, in)
  IN IF Alive(W1) /\ ~W1.ret THEN [ W1 EXCEPT !.h.dead = "fatal" ] ELSE W1

\* notes the place the result of a call comes from
From(W, cookie, how) == [ W EXCEPT !.h.calls[cookie].how = how ]

\* mPlatformWifi.configureScanMonitor(enable): the driver takes the
\* transition and will complete it later, or refuses it
PlatformConfigureScanMonitor(W, enable, in) ==
  [ W EXCEPT !.inFlight = IF in.driverOk THEN Append(@, enable) ELSE @,
             !.h.outstanding = IF in.driverOk THEN @ + 1 ELSE @,
             !.h.driverCalls = Append(@, [ enable |-> enable,
                                           accepted |-> in.driverOk ]),
             !.ret = in.driverOk ]

\* fault variant: no test for a transition already queued
configureScanMonitor_NoQueueTest(W, instanceId, enable, cookie, in) ==
  IF scanMonitorIsInRequestedState(W.apps, enable, instanceId # 0)
  THEN postScanMonitorAsyncResultEvent(From(W, cookie, "immediate"),
                                       instanceId, TRUE, enable,
                                       CHRE_ERROR_NONE, cookie, in)
  ELSE LET W1 == addScanMonitorRequestToQueue(W, instanceId, enable, cookie)
       IN IF W1.ret
          THEN LET W2 == PlatformConfigureScanMonitor(W1, enable, in)
               IN IF ~W2.ret
                  THEN [ W2 EXCEPT !.trans = RemoveAt(@, Len(@)) ]
                  ELSE W2
          ELSE W1

\* fault variant: the entry queued stays when the driver refuses the call
configureScanMonitor_NoRemove(W, instanceId, enable, cookie, in) ==
  IF W.trans # << >>
  THEN addScanMonitorRequestToQueue(W, instanceId, enable, cookie)
  ELSE IF scanMonitorIsInRequestedState(W.apps, enable, instanceId # 0)
  THEN postScanMonitorAsyncResultEvent(From(W, cookie, "immediate"),
                                       instanceId, TRUE, enable,
                                       CHRE_ERROR_NONE, cookie, in)
  ELSE LET W1 == addScanMonitorRequestToQueue(W, instanceId, enable, cookie)
       IN IF W1.ret THEN PlatformConfigureScanMonitor(W1, enable, in)
          ELSE W1

\* the second and third argument of the two predicates is the instance id,
\* converted to bool
configureScanMonitor(W, instanceId, enable, cookie, in) ==
  IF W.trans # << >>
  THEN addScanMonitorRequestToQueue(W, instanceId, enable, cookie)
  ELSE IF scanMonitorIsInRequestedState(W.apps, enable, instanceId # 0)
  THEN postScanMonitorAsyncResultEvent(From(W, cookie, "immediate"),
                                       instanceId, TRUE, enable,
                                       CHRE_ERROR_NONE, cookie, in)
  ELSE IF scanMonitorStateTransitionIsRequired(W.apps, enable,
                                               instanceId # 0)
  THEN LET W1 == addScanMonitorRequestToQueue(W, instanceId, enable, cookie)
       IN IF W1.ret
          THEN LET W2 == PlatformConfigureScanMonitor(W1, enable, in)
               IN IF ~W2.ret
                  THEN [ W2 EXCEPT !.trans = RemoveAt(@, Len(@)) ]
                  ELSE W2
          ELSE W1
  ELSE [ W EXCEPT !.ret = FALSE ]

\* the while loop of handleScanMonitorStateChangeSync; ins[k] is what the
\* environment decides during iteration k
RECURSIVE CompletionLoop(_, _, _, _, _)
CompletionLoop(W, success, errorCode, k, ins) ==
  IF ~Alive(W) \/ W.trans = << >> THEN W
  ELSE
    LET stateTransition == Head(W.trans)
        hasScanMonitorRequest ==
          nanoappHasScanMonitorRequest(
            W.apps, stateTransition.nanoappInstanceId).has
        Pop(V) == IF Alive(V) THEN [ V EXCEPT !.trans = Tail(@) ] ELSE V
    IN IF scanMonitorIsInRequestedState(W.apps, stateTransition.enable,
                                        hasScanMonitorRequest)
       THEN CompletionLoop(
              Pop(postScanMonitorAsyncResultEventFatal(
                    From(W, stateTransition.cookie, "instate"),
                    stateTransition.nanoappInstanceId, success,
                    stateTransition.enable, errorCode,
                    stateTransition.cookie, ins[k])),
              success, errorCode, k + 1, ins)
       ELSE IF scanMonitorStateTransitionIsRequired(
                 W.apps, stateTransition.enable, hasScanMonitorRequest)
       THEN LET W1 == PlatformConfigureScanMonitor(
                        W, stateTransition.enable, ins[k])
            IN IF W1.ret THEN W1
               ELSE CompletionLoop(
                      Pop(postScanMonitorAsyncResultEventFatal(
                            From(W1, stateTransition.cookie, "refused"),
                            stateTransition.nanoappInstanceId, FALSE,
                            stateTransition.enable, CHRE_ERROR,
                            stateTransition.cookie, ins[k])),
                      success, errorCode, k + 1, ins)
       ELSE W

handleScanMonitorStateChangeSync(W, enabled, errorCode, ins) ==
  IF W.trans # << >>
  THEN LET stateTransition == Head(W.trans)
           success == (errorCode = CHRE_ERROR_NONE)
                        /\ (stateTransition.enable = enabled)
           W1 == postScanMonitorAsyncResultEventFatal(
                   From(W, stateTransition.cookie, "head"),
                   stateTransition.nanoappInstanceId, success,
                   stateTransition.enable, errorCode,
                   stateTransition.cookie, ins[1])
       IN IF Alive(W1)
          THEN CompletionLoop([ W1 EXCEPT !.trans = Tail(@) ], success,
                              errorCode, 2, ins)
          ELSE W1
  ELSE CompletionLoop(W, errorCode = CHRE_ERROR_NONE, errorCode, 2, ins)

\* ---------------------------------------------------------------- actions
WifiUnchanged == UNCHANGED << loopVars, muxVars, sockVars >>

NewWifiCall(instanceId, enable) ==
  [ id |-> instanceId, enable |-> enable, ret |-> FALSE, results |-> 0,
    success |-> FALSE, errorCode |-> CHRE_ERROR_NONE, to |-> NoApp,
    granted |-> wifiHist.granted, queued |-> FALSE, how |-> "none" ]

\* a nanoapp calls configureScanMonitor; the cookie it passes is the number
\* of the call
ConfigureScanMonitor(instanceId, enable, in) ==
  /\ Alive(Wifi)
  /\ Len(wifiHist.calls) < MaxConfigureCalls
  /\ LET cookie == Len(wifiHist.calls) + 1
         W0 == [ Wifi EXCEPT
                   !.h.calls = Append(@, NewWifiCall(instanceId, enable)) ]
         W1 == configureScanMonitor(W0, instanceId, enable, cookie, in)
         W2 == IF Alive(W1)
               THEN [ W1 EXCEPT
                        !.h.calls[cookie].ret = W1.ret,
                        !.h.calls[cookie].queued =
                           Len(W1.trans) > Len(W0.trans) ]
               ELSE W1
     IN SetWifi([ W2 EXCEPT
                    !.h.last = [ op |-> "configure", cookie |-> cookie,
                                 driverCalled |->
                                   Len(W2.h.driverCalls)
                                     > Len(wifiHist.driverCalls) ] ])
  /\ UNCHANGED deferredCallbacks
  /\ WifiUnchanged

\* the driver completes the transition it took first and calls
\* handleScanMonitorStateChange, which defers the callback to the event
\* loop unless it cannot allocate the callback's state
HandleScanMonitorStateChange(enabled, errorCode, allocOk) ==
  /\ Alive(Wifi)
  /\ driverInFlight # << >>
  /\ driverInFlight' = Tail(driverInFlight)
  /\ deferredCallbacks' =
       IF allocOk
       THEN Append(deferredCallbacks,
                   [ enabled |-> enabled, errorCode |-> errorCode ])
       ELSE deferredCallbacks
  /\ wifiHist' = [ wifiHist EXCEPT
                     !.last = [ op |-> "complete", deferred |-> allocOk ] ]
  /\ UNCHANGED << mScanMonitorNanoapps, mScanMonitorStateTransitions >>
  /\ WifiUnchanged

\* the event loop runs the deferred callback
HandleScanMonitorStateChangeSync(ins) ==
  /\ Alive(Wifi)
  /\ deferredCallbacks # << >>
  /\ LET state == Head(deferredCallbacks)
         W0 == [ Wifi EXCEPT !.h.outstanding = @ - 1 ]
         W1 == handleScanMonitorStateChangeSync(W0, state.enabled,
                                                state.errorCode, ins)
     IN SetWifi([ W1 EXCEPT
                    !.h.last = [ op |-> "sync", enabled |-> state.enabled,
                                 errorCode |-> state.errorCode,
                                 before |-> mScanMonitorStateTransitions,
                                 driverCalled |->
                                   Len(W1.h.driverCalls)
                                     > Len(wifiHist.driverCalls) ] ])
  /\ deferredCallbacks' = Tail(deferredCallbacks)
  /\ WifiUnchanged

InitWifi == LoopInit /\ MuxIdle /\ WifiInit /\ SockInit

NextWifi ==
  \/ \E instanceId \in WifiApps, enable \in BOOLEAN, in \in WifiInputs :
       ConfigureScanMonitor(instanceId, enable, in)
  \/ \E enabled \in BOOLEAN, errorCode \in ErrorCodes, allocOk \in BOOLEAN :
       HandleScanMonitorStateChange(enabled, errorCode, allocOk)
  \/ \E ins \in [ 1..(MaxScanMonitorStateTransitions + 1) -> WifiInputs ] :
       HandleScanMonitorStateChangeSync(ins)

SpecWifi == InitWifi /\ [][NextWifi]_vars

\* the driver completes every transition it took and the event loop runs
\* every callback deferred to it
SpecWifiFair ==
  /\ SpecWifi
  /\ WF_vars(\E enabled \in BOOLEAN, errorCode \in ErrorCodes,
                allocOk \in BOOLEAN :
                HandleScanMonitorStateChange(enabled, errorCode, allocOk))
  /\ WF_vars(\E ins \in
                [ 1..(MaxScanMonitorStateTransitions + 1) -> WifiInputs ] :
                HandleScanMonitorStateChangeSync(ins))

\* =========================================================== SocketClient
\* socket_client.cc. One thread calls connect() and disconnect(); connect()
\* starts a receive thread. The remote end may send a message or close the
\* connection, and a connection attempt succeeds or fails.

\* reconnect(): delay = 500 ms, kMaxDelay = 5 minutes in milliseconds,
\* retryLimit = 40
kInitialDelay == 500
kMaxDelay == 300000
kRetryLimit == 40
Int32Max == 2147483647

\* delay *= 2 on an int32_t count of milliseconds: the product, wrapped
\* into the range of int32_t
Int32Double(d) ==
  IF d > Int32Max \div 2
  THEN ((d - (Int32Max \div 2) - 1) * 2 - Int32Max) - 1
  ELSE IF d < -(Int32Max \div 2) - 1
       THEN ((d + (Int32Max \div 2) + 1) * 2 + Int32Max) + 1
       ELSE d * 2

Int32DoubleOverflows(d) == d > Int32Max \div 2 \/ d < -(Int32Max \div 2) - 1

\* fault: the delay is doubled without limit
NextDelay_NoCap(delay) == Int32Double(delay)

\* reconnect(): delay *= 2; if (delay > kMaxDelay) delay = kMaxDelay
NextDelay(delay) ==
  IF Int32Double(delay) > kMaxDelay THEN kMaxDelay ELSE Int32Double(delay)

SockUnchanged == UNCHANGED << loopVars, muxVars, wifiVars >>

\* receiveThreadRunning()
receiveThreadRunning == mRxThread # 0

CallerReturns(op, ret) ==
  /\ caller' = CallerIdle
  /\ sockHist' = [ sockHist EXCEPT !.last = [ op |-> op, ret |-> ret ] ]

\* connect(), called from a thread that is not the receive thread: a
\* running receive thread is disconnected first
Connect(reconnectAutomatically, valid) ==
  /\ caller.pc = "idle"
  /\ sockHist.connects < MaxConnects
  /\ caller' = [ pc |-> IF receiveThreadRunning THEN "d_flag" ELSE "c_try",
                 op |-> "connect", auto |-> reconnectAutomatically,
                 valid |-> valid ]
  /\ sockHist' = [ sockHist EXCEPT !.connects = @ + 1 ]
  /\ UNCHANGED << mSockFd, mGracefulShutdown, mReconnectAutomatically,
                  mRxThread, rx >>
  /\ SockUnchanged

\* disconnect(), called from a thread that is not the receive thread
Disconnect ==
  /\ caller.pc = "idle"
  /\ receiveThreadRunning
  /\ caller' = [ CallerIdle EXCEPT !.pc = "d_flag", !.op = "disconnect" ]
  /\ UNCHANGED << mSockFd, mGracefulShutdown, mReconnectAutomatically,
                  mRxThread, rx, sockHist >>
  /\ SockUnchanged

\* disconnect(): mGracefulShutdown = true under mShutdownMutex
DisconnectSetFlag ==
  /\ caller.pc = "d_flag"
  /\ mGracefulShutdown' = TRUE
  /\ caller' = [ caller EXCEPT !.pc = "d_notify" ]
  /\ UNCHANGED << mSockFd, mReconnectAutomatically, mRxThread, rx, sockHist >>
  /\ SockUnchanged

\* fault: the threads blocked on the condition variable are not woken
DisconnectNotify_Missing ==
  /\ caller.pc = "d_notify"
  /\ caller' = [ caller EXCEPT !.pc = "d_shutdown" ]
  /\ UNCHANGED << mSockFd, mGracefulShutdown, mReconnectAutomatically,
                  mRxThread, rx, sockHist >>
  /\ SockUnchanged

\* disconnect(): mShutdownCond.notify_all() wakes the threads blocked in
\* wait_for
DisconnectNotify ==
  /\ caller.pc = "d_notify"
  /\ rx' = [ t \in RxThreads |->
               IF rx[t].pc = "r_blocked"
               THEN [ rx[t] EXCEPT !.notified = TRUE ] ELSE rx[t] ]
  /\ caller' = [ caller EXCEPT !.pc = "d_shutdown" ]
  /\ UNCHANGED << mSockFd, mGracefulShutdown, mReconnectAutomatically,
                  mRxThread, sockHist >>
  /\ SockUnchanged

\* disconnect(): shutdown(mSockFd, SHUT_RDWR) when there is a socket
DisconnectShutdown ==
  /\ caller.pc = "d_shutdown"
  /\ mSockFd' = IF mSockFd # INVALID_SOCKET THEN "shutdown" ELSE mSockFd
  /\ caller' = [ caller EXCEPT !.pc = "d_join" ]
  /\ UNCHANGED << mGracefulShutdown, mReconnectAutomatically, mRxThread, rx,
                  sockHist >>
  /\ SockUnchanged

\* disconnect(): mRxThread.join() returns once the thread has exited;
\* connect() goes on, disconnect() returns
DisconnectJoin ==
  /\ caller.pc = "d_join"
  /\ rx[mRxThread].pc = "done"
  /\ mRxThread' = 0
  /\ IF caller.op = "connect"
     THEN caller' = [ caller EXCEPT !.pc = "c_try" ] /\ UNCHANGED sockHist
     ELSE CallerReturns("disconnect", TRUE)
  /\ UNCHANGED << mSockFd, mGracefulShutdown, mReconnectAutomatically, rx >>
  /\ SockUnchanged

\* connect(): the arguments are checked, then tryConnect(); on success the
\* flags are set and the receive thread is started
ConnectTry(ok) ==
  /\ caller.pc = "c_try"
  /\ IF ~caller.valid
     THEN /\ CallerReturns("connect", FALSE)
          /\ UNCHANGED << mSockFd, mGracefulShutdown,
                          mReconnectAutomatically, mRxThread, rx >>
     ELSE IF ~ok
     THEN /\ mSockFd' = INVALID_SOCKET
          /\ CallerReturns("connect", FALSE)
          /\ UNCHANGED << mGracefulShutdown, mReconnectAutomatically,
                          mRxThread, rx >>
     ELSE LET t == sockHist.started + 1
          IN /\ mSockFd' = "connected"
             /\ mGracefulShutdown' = FALSE
             /\ mReconnectAutomatically' = caller.auto
             /\ rx' = [ rx EXCEPT ![t] = [ NoRxThread EXCEPT !.pc = "top" ] ]
             /\ mRxThread' = t
             /\ caller' = CallerIdle
             /\ sockHist' = [ sockHist EXCEPT
                                !.started = t,
                                !.last = [ op |-> "connect", ret |-> TRUE ] ]
  /\ SockUnchanged

\* the remote end closes the connection
RemoteClose ==
  /\ mSockFd = "connected"
  /\ sockHist.closes < MaxRemoteCloses
  /\ mSockFd' = "eof"
  /\ sockHist' = [ sockHist EXCEPT !.closes = @ + 1 ]
  /\ UNCHANGED << mGracefulShutdown, mReconnectAutomatically, mRxThread, rx,
                  caller >>
  /\ SockUnchanged

\* receiveThread(): while (!mGracefulShutdown)
RxTop(t) ==
  /\ rx[t].pc = "top"
  /\ rx' = [ rx EXCEPT ![t].pc = IF ~mGracefulShutdown THEN "recv"
                                 ELSE "close" ]
  /\ UNCHANGED << mSockFd, mGracefulShutdown, mReconnectAutomatically,
                  mRxThread, caller, sockHist >>
  /\ SockUnchanged

\* receiveThread(): recv returns a message from the remote end
RxRecvMessage(t) ==
  /\ rx[t].pc = "recv"
  /\ mSockFd = "connected"
  /\ sockHist.messages < MaxMessages
  /\ rx' = [ rx EXCEPT ![t].pc = "top" ]
  /\ sockHist' = [ sockHist EXCEPT !.messages = @ + 1,
                                   !.onMessageReceived = @ + 1 ]
  /\ UNCHANGED << mSockFd, mGracefulShutdown, mReconnectAutomatically,
                  mRxThread, caller >>
  /\ SockUnchanged

\* receiveThread(): recv fails
RxRecvError(t) ==
  /\ rx[t].pc = "recv"
  /\ mSockFd = "connected"
  /\ sockHist.closes < MaxRemoteCloses
  /\ sockHist' = [ sockHist EXCEPT !.closes = @ + 1 ]
  /\ rx' = [ rx EXCEPT ![t].pc = "close" ]
  /\ UNCHANGED << mSockFd, mGracefulShutdown, mReconnectAutomatically,
                  mRxThread, caller >>
  /\ SockUnchanged

\* receiveThread(): recv returns 0 on a connection closed by the remote end
\* or shut down by disconnect()
RxRecvClosed(t) ==
  /\ rx[t].pc = "recv"
  /\ mSockFd \in { "eof", "shutdown" }
  /\ rx' = [ rx EXCEPT ![t].pc = "close" ]
  /\ sockHist' = IF ~mGracefulShutdown
                 THEN [ sockHist EXCEPT !.onSocketDisconnectedByRemote = @ + 1 ]
                 ELSE sockHist
  /\ UNCHANGED << mSockFd, mGracefulShutdown, mReconnectAutomatically,
                  mRxThread, caller >>
  /\ SockUnchanged

\* receiveThread(): close(mSockFd); mSockFd = INVALID_SOCKET. The locals
\* of the reconnect() that made the connection are gone by now.
RxClose(t) ==
  /\ rx[t].pc = "close"
  /\ mSockFd' = INVALID_SOCKET
  /\ rx' = [ rx EXCEPT ![t] = [ NoRxThread EXCEPT !.pc = "cond" ] ]
  /\ UNCHANGED << mGracefulShutdown, mReconnectAutomatically, mRxThread,
                  caller, sockHist >>
  /\ SockUnchanged

\* receiveThread(): while (!mGracefulShutdown && mReconnectAutomatically &&
\* reconnect()): reconnect() is entered with its locals initialised
RxCond(t) ==
  /\ rx[t].pc = "cond"
  /\ rx' = [ rx EXCEPT ![t] =
               IF ~mGracefulShutdown /\ mReconnectAutomatically
               THEN [ pc |-> "r_top", delay |-> kInitialDelay,
                      retryLimit |-> kRetryLimit, waits |-> << >>,
                      attempts |-> 0, overflow |-> FALSE,
                      cycle |-> "retrying", notified |-> FALSE ]
               ELSE [ @ EXCEPT !.pc = "fin" ] ]
  /\ UNCHANGED << mSockFd, mGracefulShutdown, mReconnectAutomatically,
                  mRxThread, caller, sockHist >>
  /\ SockUnchanged

\* reconnect(): while (--retryLimit > 0)
RxRetry(t) ==
  /\ rx[t].pc = "r_top"
  /\ rx' = [ rx EXCEPT ![t] =
               IF @.retryLimit - 1 > 0
               THEN [ @ EXCEPT !.retryLimit = @ - 1, !.pc = "r_wait" ]
               ELSE [ @ EXCEPT !.retryLimit = @ - 1, !.pc = "fin",
                               !.cycle = "gaveup" ] ]
  /\ UNCHANGED << mSockFd, mGracefulShutdown, mReconnectAutomatically,
                  mRxThread, caller, sockHist >>
  /\ SockUnchanged

\* reconnect(): mShutdownCond.wait_for(lock, delay, predicate) takes the
\* lock and tests mGracefulShutdown: when it is set the wait returns at
\* once and reconnect() breaks out of its loop, else the thread blocks
RxWait(t) ==
  /\ rx[t].pc = "r_wait"
  /\ rx' = [ rx EXCEPT ![t] =
               IF mGracefulShutdown
               THEN [ @ EXCEPT !.pc = "fin", !.cycle = "interrupted" ]
               ELSE [ @ EXCEPT !.pc = "r_blocked", !.notified = FALSE ] ]
  /\ UNCHANGED << mSockFd, mGracefulShutdown, mReconnectAutomatically,
                  mRxThread, caller, sockHist >>
  /\ SockUnchanged

\* reconnect(): the wait ends because delay has passed; if
\* (mGracefulShutdown) break
RxWaitTimeout(t) ==
  /\ rx[t].pc = "r_blocked"
  /\ rx' = [ rx EXCEPT ![t] =
               IF mGracefulShutdown
               THEN [ @ EXCEPT !.pc = "fin", !.cycle = "interrupted",
                               !.notified = FALSE ]
               ELSE [ @ EXCEPT !.pc = "r_try", !.notified = FALSE,
                               !.waits = Append(@, rx[t].delay) ] ]
  /\ UNCHANGED << mSockFd, mGracefulShutdown, mReconnectAutomatically,
                  mRxThread, caller, sockHist >>
  /\ SockUnchanged

\* reconnect(): the wait is ended by notify_all; the predicate holds and
\* reconnect() breaks out of its loop
RxWaitNotified(t) ==
  /\ rx[t].pc = "r_blocked"
  /\ rx[t].notified
  /\ rx' = [ rx EXCEPT ![t] =
               IF mGracefulShutdown
               THEN [ @ EXCEPT !.pc = "fin", !.cycle = "interrupted",
                               !.notified = FALSE ]
               ELSE [ @ EXCEPT !.notified = FALSE ] ]
  /\ UNCHANGED << mSockFd, mGracefulShutdown, mReconnectAutomatically,
                  mRxThread, caller, sockHist >>
  /\ SockUnchanged

\* fault: the callback is invoked after every attempt
ReconnectTry_AlwaysNotify(t, ok) ==
  /\ rx[t].pc = "r_try"
  /\ mSockFd' = IF ok THEN "connected" ELSE INVALID_SOCKET
  /\ rx' = [ rx EXCEPT ![t] =
               IF ok
               THEN [ @ EXCEPT !.attempts = @ + 1, !.pc = "top",
                               !.cycle = "reconnected" ]
               ELSE [ @ EXCEPT !.attempts = @ + 1, !.pc = "r_top",
                               !.delay = NextDelay(@),
                               !.overflow = Int32DoubleOverflows(rx[t].delay) ] ]
  /\ sockHist' = [ sockHist EXCEPT !.onSocketReconnected = @ + 1 ]
  /\ UNCHANGED << mGracefulShutdown, mReconnectAutomatically, mRxThread,
                  caller >>
  /\ SockUnchanged

\* reconnect(): tryConnect(); on failure the delay is doubled up to
\* kMaxDelay, on success onSocketReconnected() is called and reconnect()
\* returns true
ReconnectTry(t, ok) ==
  /\ rx[t].pc = "r_try"
  /\ mSockFd' = IF ok THEN "connected" ELSE INVALID_SOCKET
  /\ rx' = [ rx EXCEPT ![t] =
               IF ok
               THEN [ @ EXCEPT !.attempts = @ + 1, !.pc = "top",
                               !.cycle = "reconnected" ]
               ELSE [ @ EXCEPT !.attempts = @ + 1, !.pc = "r_top",
                               !.delay = NextDelay(@),
                               !.overflow = Int32DoubleOverflows(rx[t].delay) ] ]
  /\ sockHist' = IF ok
                 THEN [ sockHist EXCEPT !.onSocketReconnected = @ + 1 ]
                 ELSE sockHist
  /\ UNCHANGED << mGracefulShutdown, mReconnectAutomatically, mRxThread,
                  caller >>
  /\ SockUnchanged

\* fault: onReconnectAborted() is called whenever the thread exits
RxFin_AlwaysAbort(t) ==
  /\ rx[t].pc = "fin"
  /\ rx' = [ rx EXCEPT ![t] = [ NoRxThread EXCEPT !.pc = "done" ] ]
  /\ sockHist' = [ sockHist EXCEPT !.onReconnectAborted = @ + 1,
                                   !.abortedAfter = rx[t].attempts ]
  /\ UNCHANGED << mSockFd, mGracefulShutdown, mReconnectAutomatically,
                  mRxThread, caller >>
  /\ SockUnchanged

\* receiveThread(): onReconnectAborted() unless shutdown was requested or
\* reconnecting was not asked for; mCallbacks.clear(); the thread exits.
\* sockHist.abortedAfter: the attempts made by the reconnect() given up.
RxFin(t) ==
  /\ rx[t].pc = "fin"
  /\ rx' = [ rx EXCEPT ![t] = [ NoRxThread EXCEPT !.pc = "done" ] ]
  /\ sockHist' = IF ~mGracefulShutdown /\ mReconnectAutomatically
                 THEN [ sockHist EXCEPT !.onReconnectAborted = @ + 1,
                                        !.abortedAfter = rx[t].attempts ]
                 ELSE sockHist
  /\ UNCHANGED << mSockFd, mGracefulShutdown, mReconnectAutomatically,
                  mRxThread, caller >>
  /\ SockUnchanged

InitSocket == LoopInit /\ MuxIdle /\ WifiInit /\ SockInit

NextSocket ==
  \/ \E reconnectAutomatically \in BOOLEAN, valid \in BOOLEAN :
       Connect(reconnectAutomatically, valid)
  \/ Disconnect
  \/ DisconnectSetFlag
  \/ DisconnectNotify
  \/ DisconnectShutdown
  \/ DisconnectJoin
  \/ \E ok \in BOOLEAN : ConnectTry(ok)
  \/ RemoteClose
  \/ \E t \in RxThreads :
       \/ RxTop(t)
       \/ RxRecvMessage(t)
       \/ RxRecvError(t)
       \/ RxRecvClosed(t)
       \/ RxClose(t)
       \/ RxCond(t)
       \/ RxRetry(t)
       \/ RxWait(t)
       \/ RxWaitTimeout(t)
       \/ RxWaitNotified(t)
       \/ \E ok \in BOOLEAN : ReconnectTry(t, ok)
       \/ RxFin(t)

SpecSocket == InitSocket /\ [][NextSocket]_vars

\* the steps of the calling thread inside disconnect()
DisconnectSteps ==
  DisconnectSetFlag \/ DisconnectNotify \/ DisconnectShutdown \/ DisconnectJoin

\* the steps a receive thread takes by itself: all but the arrival of a
\* message, a failure of recv and the end of a backoff wait by timeout
RxSteps(t) ==
  \/ RxTop(t) \/ RxRecvClosed(t) \/ RxClose(t) \/ RxCond(t) \/ RxRetry(t)
  \/ RxWait(t) \/ RxWaitNotified(t) \/ RxFin(t)
  \/ \E ok \in BOOLEAN : ReconnectTry(t, ok)

\* both threads are scheduled; nothing is assumed about the remote end or
\* about the passing of time
SpecSocketFair ==
  /\ SpecSocket
  /\ WF_vars(DisconnectSteps)
  /\ \A t \in RxThreads : WF_vars(RxSteps(t))

\* ================================================================ claims
Events == 1..Len(mEventPool)
Loaded(instanceId) == IndexOfInstance(mNanoapps, instanceId) # 0
RunReturned == pc = "done"

\* C1: every event that postEvent accepted is freed exactly once, never
\* twice, never while a nanoapp queue still holds a reference to it, and not
\* zero times once run() has returned.
C1_FreedExactlyOnce ==
  \A e \in Events :
    /\ mEventPool[e].frees <= 1
    /\ ~mEventPool[e].badRef
    /\ (RunReturned /\ mEventPool[e].accepted) => mEventPool[e].frees = 1

\* C2: once stop() has completed, the loop thread is not left blocked in the
\* inbound pop with an empty inbound queue and nobody able to post (the
\* running flag is cleared, so every later postEvent is refused).
C2_StopNeverStrandsLoop ==
  ~(stopPc = "done" /\ pc = "pop" /\ mEvents = << >> /\ extPc = "idle")

PostPushStep == StopPost \/ \E post \in ExtPosts : ExtPostPush(post)
\* a step in which the platform thread's postEvent returns at its test of
\* mRunning
PostRefusedStep == ExtPostCheck /\ extPc' = "idle"
PoolExhausted == LiveCount(mEventPool) >= MaxEventCount
InboundFull == Len(mEvents) >= MaxUnhandledEventCount
\* exactly one event, the one just allocated, joined the inbound queue
AppendedOne ==
  /\ Len(mEventPool') = Len(mEventPool) + 1
  /\ mEvents' = Append(mEvents, Len(mEventPool'))

\* C4 as stated: postEvent returns false only if the running flag is
\* cleared or the event pool is exhausted; in every other state it returns
\* true and appends exactly one event to the inbound queue.
C4_FailsOnlyStoppingOrExhausted ==
  [][ /\ PostRefusedStep => ~mRunning
      /\ PostPushStep =>
           IF PoolExhausted
           THEN ~hist'.last.ret /\ mEvents' = mEvents
           ELSE hist'.last.ret /\ AppendedOne ]_vars

\* C4 amended: postEvent returns false only if the running flag is cleared,
\* the event pool is exhausted or the inbound queue is full; in every other
\* state it returns true and appends exactly one event to the inbound
\* queue. When it returns false the inbound queue is unchanged.
C4_FailsOnlyStoppingExhaustedOrFull ==
  [][ /\ PostRefusedStep =>
           ~mRunning /\ hist'.last = PostLog(FALSE) /\ mEvents' = mEvents
      /\ PostPushStep =>
           IF PoolExhausted \/ InboundFull
           THEN hist'.last = PostLog(FALSE) /\ mEvents' = mEvents
           ELSE hist'.last = PostLog(TRUE) /\ AppendedOne ]_vars

\* a postEvent call has just returned false while the loop was running and
\* the pool had a free block: the event it allocated is not in any queue
C4_Witness ==
  /\ hist.last = PostLog(FALSE)
  /\ mRunning
  /\ \E e \in Events : mEventPool[e].live /\ ~mEventPool[e].accepted

\* C5 -----------------------------------------------------------------
\* C5: the nanoapp list never holds two nanoapps with the same app id, and
\* startNanoapp for an app id that is already loaded returns false, does not
\* call the start entry point, assigns no instance id and leaves the nanoapp
\* list unchanged.
C5_OneNanoappPerAppId ==
  /\ [](\A i \in 1..Len(mNanoapps), j \in 1..Len(mNanoapps) :
          mNanoapps[i].appId = mNanoapps[j].appId => i = j)
  /\ [][ \A app \in Catalogue, startRet \in BOOLEAN, allocOk \in BOOLEAN,
            act \in Acts :
           ( /\ StartNanoapp(app, startRet, allocOk, act)
             /\ lookupAppByAppId(mNanoapps, app.appId) # 0 )
           => /\ hist'.last.op = "start" /\ ~hist'.last.ret
              /\ hist'.napp = hist.napp
              /\ nextInstanceId' = nextInstanceId
              /\ mNanoapps' = mNanoapps
              /\ mEventPool' = mEventPool ]_vars

\* startNanoapp has just refused an app id that is loaded
C5_Witness ==
  /\ hist.last.op = "start"
  /\ hist.last.why = "dup"
  /\ mNanoapps # << >>

\* C6 -----------------------------------------------------------------
\* C6: when the start entry point returns false, startNanoapp returns
\* false, the nanoapp list is what it was before the call, a lookup of the
\* app id misses, and the end entry point of that nanoapp never runs.
C6_FailedStartLeavesNoTrace ==
  /\ [](\A id \in InstanceIds :
          (hist.napp[id].started /\ ~hist.napp[id].startRet)
            => hist.napp[id].ends = 0 /\ ~Loaded(id))
  /\ [][ \A app \in Catalogue, act \in Acts :
           ( /\ StartNanoapp(app, FALSE, TRUE, act)
             /\ lookupAppByAppId(mNanoapps, app.appId) = 0 )
           => /\ hist'.napp[nextInstanceId].started
              /\ hist'.last.op = "start" /\ ~hist'.last.ret
              /\ mNanoapps' = mNanoapps
              /\ lookupAppByAppId(mNanoapps', app.appId) = 0 ]_vars

\* run() has returned after a nanoapp's start entry point returned false
C6_Witness ==
  /\ RunReturned
  /\ \E id \in InstanceIds :
       hist.napp[id].started /\ ~hist.napp[id].startRet

\* C7 -----------------------------------------------------------------
\* C7: the end entry point of a nanoapp runs at most once, and only if its
\* start returned true; once a nanoapp whose start returned true has left
\* the list (unloadNanoapp, or the unload-all at loop exit) or run() has
\* returned, its end has run exactly once.
C7_EndExactlyOnceIffStarted ==
  \A id \in InstanceIds :
    /\ hist.napp[id].ends <= 1
    /\ hist.napp[id].ends = 1 =>
         hist.napp[id].started /\ hist.napp[id].startRet
    /\ ( /\ hist.napp[id].started
         /\ hist.napp[id].startRet
         /\ (~Loaded(id) \/ RunReturned) )
       => hist.napp[id].ends = 1

\* run() has returned after an explicit unloadNanoapp and an unload-all:
\* every nanoapp started has seen its end
C7_Witness ==
  /\ RunReturned
  /\ hist.last.op = "unload"
  /\ hist.last.ret
  /\ \A id \in InstanceIds : hist.napp[id].ends = 1

\* C8 -----------------------------------------------------------------
\* C8: no unloadNanoapp has returned true while the inbound queue or a
\* nanoapp's queue held an event whose sender is the nanoapp unloaded.
C8_NoEventOfUnloadedSender == ~hist.senderLeft

\* unloadNanoapp has just returned true for a nanoapp that had events of
\* its own queued when the call was made
C8_Witness ==
  /\ hist.last.op = "unload"
  /\ hist.last.ret
  /\ hist.last.sent

\* C9 -----------------------------------------------------------------
\* C9: every event that waits for a nanoapp when unloadNanoapp is called for
\* it (in its own queue, or in the inbound queue and due to it) has reached
\* its handler before its end entry point runs, and its handler never runs
\* after its end.
C9_DeliveredBeforeEnd ==
  \A id \in InstanceIds :
    /\ ~hist.napp[id].missedAtEnd
    /\ ~hist.napp[id].handledAfterEnd
    /\ hist.napp[id].ends > 0 => ~Loaded(id)

\* unloadNanoapp has just returned true for a nanoapp that had events
\* waiting for it when the call was made
C9_Witness ==
  /\ hist.last.op = "unload"
  /\ hist.last.ret
  /\ hist.last.waited

\* C10 ----------------------------------------------------------------
\* C10: unloadNanoapp goes ahead, and then returns true, exactly when the
\* instance id is that of a loaded nanoapp that is not a system nanoapp or
\* the override is set; when it returns true the nanoapp is found neither by
\* instance id nor by app id; when it returns false no end entry point has
\* run, no event was distributed or delivered, and the nanoapp list and the
\* stopping marker are unchanged.
C10_UnloadResultAndFrame ==
  [][ /\ \A instanceId \in InstanceIds, allow \in BOOLEAN :
           UnloadBegin(instanceId, allow) =>
             LET i == IndexOfInstance(mNanoapps, instanceId)
             IN IF i # 0 /\ (~mNanoapps[i].isSystem \/ allow)
                THEN pc' = "u_inbound" /\ unloadIdx' = i
                ELSE /\ pc' = pc
                     /\ hist'.last.op = "unload" /\ ~hist'.last.ret
                     /\ hist'.napp = hist.napp
                     /\ UNCHANGED << mNanoapps, mStoppingNanoapp, mEvents,
                                     mEventPool >>
      /\ (\E act \in Acts : UnloadEnd(act)) =>
             LET app == mNanoapps[unloadIdx]
             IN /\ hist'.last.op = "unload" /\ hist'.last.ret
                /\ lookupAppByInstanceId(mNanoapps', app.instanceId) = NoApp
                /\ lookupAppByAppId(mNanoapps', app.appId) = 0
                /\ mStoppingNanoapp' = NoApp
      /\ (hist'.last.op = "unload" /\ hist'.last.ret /\ hist'.last # hist.last)
           => pc \in {"u_end"} ]_vars

\* unloadNanoapp has just refused to unload a system nanoapp
C10_Witness ==
  /\ hist.last.op = "unload"
  /\ hist.last.why = "system"
  /\ \E i \in 1..Len(mNanoapps) : mNanoapps[i].isSystem

\* C11 ----------------------------------------------------------------
\* C11: no event sent by a nanoapp is accepted while the nanoapp runs (its
\* handler, its end, or the free callback of an event it sent) between the
\* statement of unloadNanoapp that marks it as stopping and its erasure,
\* nor, for any nanoapp, once the loop has been stopped.
C11_StoppingNanoappCannotSend == ~hist.sentWhileStopping

\* unloadNanoapp has returned true for a nanoapp that tried to send an
\* event while it was marked as stopping, and was refused
C11_Witness ==
  /\ hist.last.op = "unload"
  /\ hist.last.ret
  /\ hist.last.refused

\* C12 ----------------------------------------------------------------
\* a step in which the loop thread distributes the head of the inbound queue
DistributeStep ==
  \/ \E act \in Acts : RunPop(act)
  \/ \E act \in Acts : UnloadFlushInbound(act)
\* how many entries of the nanoapps' queues hold event e
QueuedCount(e) ==
  Cardinality({ ik \in (1..Len(mNanoapps)) \X (1..MaxPosts) :
                  /\ ik[2] <= Len(mNanoapps[ik[1]].queue)
                  /\ mNanoapps[ik[1]].queue[ik[2]] = e })

DrainInboundStep == pc = "d_inbound" /\ Len(mEvents') < Len(mEvents)

\* the shutdown drain removes a nanoapp from the list
DrainUnloadStep == pc = "d_unload" /\ mNanoapps' # mNanoapps

QueuesEmpty == \A i \in 1..Len(mNanoapps) : mNanoapps[i].queue = << >>

\* the claim as stated: the shutdown drain passes every event still in the
\* inbound queue through distribute, so that each eligible nanoapp has it
\* in its queue, then unloads the nanoapps last first, and the list is
\* empty when run() returns
C14_DrainDistributesInbound ==
  /\ [][ DrainInboundStep =>
           \A i \in Recipients(mNanoapps, mEventPool[Head(mEvents)]) :
             /\ i <= Len(mNanoapps')
             /\ \E k \in 1..Len(mNanoapps'[i].queue) :
                  mNanoapps'[i].queue[k] = Head(mEvents) ]_vars
  /\ [][ DrainUnloadStep =>
           mNanoapps' = SubSeq(mNanoapps, 1, Len(mNanoapps) - 1) ]_vars
  /\ [](RunReturned => mNanoapps = << >>)

\* C14: on exit from the run loop the shutdown drain first delivers until
\* every per-nanoapp queue is empty; then it frees every event still in the
\* inbound queue without giving it to any nanoapp; then it unloads every
\* remaining nanoapp, the last of the list first; when run() returns the
\* nanoapp list is empty.
C14_DrainOrder ==
  /\ [](pc \in { "d_inbound", "d_unload", "done" } => QueuesEmpty)
  /\ [][ DrainInboundStep =>
           /\ mEvents' = Tail(mEvents)
           /\ ~mEventPool'[Head(mEvents)].live
           /\ mEventPool'[Head(mEvents)].frees
                = mEventPool[Head(mEvents)].frees + 1
           /\ mNanoapps' = mNanoapps ]_vars
  /\ [][ DrainUnloadStep =>
           mNanoapps' = SubSeq(mNanoapps, 1, Len(mNanoapps) - 1) ]_vars
  /\ [](RunReturned => mNanoapps = << >>)

\* run() has returned: its drain freed an inbound event, and the nanoapp
\* started by the latest startNanoapp call, like every other one, has ended
C14_Witness ==
  /\ RunReturned
  /\ hist.drainFreed
  /\ hist.last.op = "start"
  /\ hist.last.why = "ok"
  /\ \A id \in InstanceIds :
       hist.napp[id].started /\ hist.napp[id].ends = 1

\* C15 ----------------------------------------------------------------
\* the stored requests merged into the default request, the first one
\* first
RECURSIVE FoldRequests(_, _)
FoldRequests(T, requests) ==
  IF requests = << >> THEN DefaultRequest(T)
  ELSE generateIntersectionOf(
         T, FoldRequests(T, SubSeq(requests, 1, Len(requests) - 1)),
         requests[Len(requests)])

\* C15: after every sequence of addRequest, removeRequest and updateRequest
\* calls, getCurrentMaximalRequest() is equivalent to the fold of
\* generateIntersectionOf over the stored requests, from the default
\* request on (for DummyRequests: its priority is the greatest of 0 and the
\* stored priorities); with no stored request it is equivalent to the
\* default request.
C15_MaximalIsFold ==
  /\ isEquivalentTo("DummyRequest", mCurrentMaximalRequest,
                    FoldRequests("DummyRequest", mRequests))
  /\ \A p \in { 0 } \cup { mRequests[i].mPriority : i \in 1..Len(mRequests) } :
       p <= mCurrentMaximalRequest.mPriority
  /\ mCurrentMaximalRequest.mPriority
       \in { 0 } \cup { mRequests[i].mPriority : i \in 1..Len(mRequests) }
  /\ mRequests = << >> =>
       isEquivalentTo("DummyRequest", mCurrentMaximalRequest,
                      DummyRequest_Default)

\* the request of priority 10 has been removed and the maximal is that of
\* the two or more requests that stay, of priority 5
C15_Witness ==
  /\ muxCall.op = "remove"
  /\ muxCall.before = DummyRequest(10)
  /\ Len(mRequests) >= 2
  /\ mCurrentMaximalRequest = DummyRequest(5)

\* C16 ----------------------------------------------------------------
AddStep == muxCall'.op = "add" /\ Len(mRequests') = Len(mRequests) + 1

RemoveStep == muxCall'.op = "remove" /\ Len(mRequests') = Len(mRequests) - 1

\* the flag a call reports tells whether the maximal after it is not
\* equivalent to the maximal before it
ReportsChange ==
  maximalRequestChanged'
    = ~isEquivalentTo("DummyRequest", mCurrentMaximalRequest',
                      mCurrentMaximalRequest)

\* the request added has a priority above that of the maximal
AddsHigher == muxCall'.request.mPriority > mCurrentMaximalRequest.mPriority

\* the request removed has a priority above that of every request that
\* stays
RemovesUniqueMaximal ==
  \A i \in 1..Len(mRequests') :
    mRequests'[i].mPriority < muxCall'.request.mPriority

\* the claim as stated: the flag tells whether the maximal changed; adding
\* a default, lower or equal request reports false and a strictly higher
\* one true; removing a request that is not maximal or is one of several
\* equal maximal ones reports false, removing the unique maximal true
C16_ChangedIffMaximalChanged ==
  [][ /\ (AddStep \/ RemoveStep) => ReportsChange
      /\ AddStep => (maximalRequestChanged' <=> AddsHigher)
      /\ RemoveStep => (maximalRequestChanged' <=> RemovesUniqueMaximal)
    ]_vars

\* C16: every addRequest and removeRequest reports maximalRequestChanged =
\* true if and only if the maximal after the call is not equivalent to the
\* maximal before it; adding a default, lower or equal request reports
\* false and a strictly higher one true; removing a request that is not
\* maximal or is one of several equal maximal ones reports false; removing
\* the unique maximal reports true unless that request is equivalent to the
\* default request, and then it reports false.
C16_ChangedIffMaximalDiffers ==
  [][ /\ (AddStep \/ RemoveStep) => ReportsChange
      /\ AddStep => (maximalRequestChanged' <=> AddsHigher)
      /\ RemoveStep =>
           (maximalRequestChanged' <=>
              /\ RemovesUniqueMaximal
              /\ ~isEquivalentTo("DummyRequest", muxCall'.request,
                                 DummyRequest_Default))
    ]_vars

\* one of two requests of the maximal priority 10 has been removed, and no
\* change was reported
C16_Witness ==
  /\ muxCall.op = "remove"
  /\ muxCall.request = DummyRequest(10)
  /\ \E i \in 1..Len(mRequests) : mRequests[i] = DummyRequest(10)
  /\ ~maximalRequestChanged

\* C17 ----------------------------------------------------------------
\* Off < PassiveOneShot < PassiveContinuous < ActiveOneShot <
\* ActiveContinuous
ModeOrder == << "Off", "PassiveOneShot", "PassiveContinuous",
                "ActiveOneShot", "ActiveContinuous" >>

ModeRank(mode) == CHOOSE k \in 1..Len(ModeOrder) : ModeOrder[k] = mode

Least(S) == CHOOSE x \in S : \A y \in S : x <= y

Merged == mergedRequest # << >>

\* C17: a.generateIntersectionOf(b) has the higher of the two modes under
\* Off < PassiveOneShot < PassiveContinuous < ActiveOneShot <
\* ActiveContinuous, the smaller of the two intervals and the smaller of the
\* two latencies.
C17_MergeTakesHigherModeAndMinima ==
  Merged =>
    LET a == operands[1]
        b == operands[2]
    IN /\ mergedRequest.ab.mMode \in { a.mMode, b.mMode }
       /\ ModeRank(mergedRequest.ab.mMode) >= ModeRank(a.mMode)
       /\ ModeRank(mergedRequest.ab.mMode) >= ModeRank(b.mMode)
       /\ mergedRequest.ab.mInterval = Least({ a.mInterval, b.mInterval })
       /\ mergedRequest.ab.mLatency = Least({ a.mLatency, b.mLatency })

\* a passive continuous request with the smaller interval and the larger
\* latency has been merged with an active one-shot request
C17_Witness ==
  /\ Merged
  /\ operands[1].mMode = "PassiveContinuous"
  /\ operands[2].mMode = "ActiveOneShot"
  /\ operands[1].mInterval < operands[2].mInterval
  /\ operands[1].mLatency > operands[2].mLatency
  /\ mergedRequest.ab.mMode = "ActiveOneShot"

\* C18 ----------------------------------------------------------------
\* C18: the default-constructed SensorRequest is the identity of the merge:
\* x.generateIntersectionOf(SensorRequest()) and
\* SensorRequest().generateIntersectionOf(x) are equivalent to x.
C18_DefaultIsIdentity ==
  Merged =>
    /\ SensorRequest_isEquivalentTo(mergedRequest.aDefault, operands[1])
    /\ SensorRequest_isEquivalentTo(mergedRequest.defaultA, operands[1])

\* C19 ----------------------------------------------------------------
\* C19: generateIntersectionOf is commutative, associative and idempotent
\* up to isEquivalentTo.
C19_MergeIsSemilattice ==
  Merged =>
    /\ SensorRequest_isEquivalentTo(mergedRequest.ab, mergedRequest.ba)
    /\ SensorRequest_isEquivalentTo(mergedRequest.ab_c, mergedRequest.a_bc)
    /\ SensorRequest_isEquivalentTo(mergedRequest.aa, operands[1])

\* three requests that differ from one another in mode, interval and
\* latency have been merged
C19_Witness ==
  /\ Merged
  /\ \A i \in 1..3, j \in 1..3 :
       i # j => /\ operands[i].mMode # operands[j].mMode
                /\ operands[i].mInterval # operands[j].mInterval
                /\ operands[i].mLatency # operands[j].mLatency

\* C20 ----------------------------------------------------------------
\* C20: while a sensor's multiplexer holds requests, its maximal request
\* has the smallest of their intervals, the smallest of their latencies and
\* the highest of their modes; removing the only request of the highest
\* mode reports a change.
C20_MaximalIsSmallest ==
  mRequests # << >> =>
    LET held == { mRequests[i] : i \in 1..Len(mRequests) }
    IN /\ mCurrentMaximalRequest.mInterval
            = Least({ r.mInterval : r \in held })
       /\ mCurrentMaximalRequest.mLatency
            = Least({ r.mLatency : r \in held })
       /\ \A r \in held :
            ModeRank(r.mMode) <= ModeRank(mCurrentMaximalRequest.mMode)
       /\ mCurrentMaximalRequest.mMode \in { r.mMode : r \in held }

\* ------------------------------------------------------------- wifi claims
WifiCalls == 1..Len(wifiHist.calls)
WifiRunning == wifiHist.dead = "none"
ConfigureStep == wifiHist'.last.op = "configure" /\ wifiHist' # wifiHist
SyncStep == wifiHist'.last.op = "sync" /\ wifiHist' # wifiHist
\* the driver calls made in this step
NewDriverCalls ==
  SubSeq(wifiHist'.driverCalls, Len(wifiHist.driverCalls) + 1,
         Len(wifiHist'.driverCalls))

\* C21 ----------------------------------------------------------------
\* C21: every configureScanMonitor call that returned true gets exactly one
\* async result, posted to the caller with the call's cookie, eventually
\* (unless the runtime aborts first); a call that returned false gets none.
C21_OneResultPerAcceptedCall ==
  /\ [](\A c \in WifiCalls :
          /\ wifiHist.calls[c].results <= 1
          /\ wifiHist.calls[c].results = 1 =>
               wifiHist.calls[c].to = wifiHist.calls[c].id
          /\ (WifiRunning /\ ~wifiHist.calls[c].ret /\ ~wifiHist.calls[c].queued)
               => wifiHist.calls[c].results = 0)
  /\ \A c \in 1..MaxConfigureCalls :
       []((c \in WifiCalls /\ wifiHist.calls[c].ret)
            => <>(\/ c \in WifiCalls /\ wifiHist.calls[c].results = 1
                  \/ ~WifiRunning))

\* C22 ----------------------------------------------------------------
\* C22: at most one driver call is accepted and not yet handled by
\* handleScanMonitorStateChangeSync; configureScanMonitor calls the driver
\* only when none is, the completion handler only after the one it handles,
\* and nothing after a call the driver accepted; a request arriving while
\* the queue of pending transitions is not empty joins the queue (or is
\* refused when the queue is full) without a driver call.
C22_OneTransitionInFlight ==
  /\ [](wifiHist.outstanding \in { 0, 1 })
  /\ [](wifiHist.outstanding = 1 => mScanMonitorStateTransitions # << >>)
  /\ [][ NewDriverCalls # << >> =>
           /\ ConfigureStep => wifiHist.outstanding = 0
           /\ SyncStep => wifiHist.outstanding = 1
           /\ \A k \in 1..(Len(NewDriverCalls) - 1) :
                ~NewDriverCalls[k].accepted ]_vars
  /\ [][ (ConfigureStep /\ mScanMonitorStateTransitions # << >>) =>
           LET call == wifiHist'.calls[wifiHist'.last.cookie]
           IN /\ NewDriverCalls = << >>
              /\ call.results = 0
              /\ IF Len(mScanMonitorStateTransitions)
                      < MaxScanMonitorStateTransitions
                 THEN /\ call.ret
                      /\ mScanMonitorStateTransitions' =
                           Append(mScanMonitorStateTransitions,
                                  [ nanoappInstanceId |-> call.id,
                                    cookie |-> wifiHist'.last.cookie,
                                    enable |-> call.enable ])
                 ELSE /\ ~call.ret
                      /\ UNCHANGED mScanMonitorStateTransitions ]_vars

\* a request has joined the queue behind the transition the driver is
\* working on
C22_Witness ==
  /\ wifiHist.last.op = "configure"
  /\ ~wifiHist.last.driverCalled
  /\ wifiHist.outstanding = 1
  /\ Len(mScanMonitorStateTransitions) = 2
  /\ mScanMonitorStateTransitions[2].cookie = wifiHist.last.cookie

\* C23 ----------------------------------------------------------------
\* C23: the list of scan-monitoring nanoapps holds, without duplicates,
\* exactly the instance ids whose enable request was reported successful
\* and that have not since had a disable request reported successful;
\* scanMonitorIsEnabled() is true exactly when there is such a nanoapp.
C23_ListIsGrantedSet ==
  /\ { mScanMonitorNanoapps[i] : i \in 1..Len(mScanMonitorNanoapps) }
       = wifiHist.granted
  /\ Len(mScanMonitorNanoapps) = Cardinality(wifiHist.granted)
  /\ scanMonitorIsEnabled(mScanMonitorNanoapps) <=> wifiHist.granted # {}

\* C24 ----------------------------------------------------------------
\* C24: from the disabled state with nothing pending, nanoapp X requests
\* enable, nanoapp Y requests enable before the driver completes, and the
\* driver reports enabled without error: once the completion is handled,
\* the driver has been called exactly once, with true, X and Y have each
\* got a success result, and the monitoring list is {X, Y}.
C24_EnableRequestsCoalesce ==
  ( /\ WifiRunning
    /\ Len(wifiHist.calls) = 2
    /\ wifiHist.calls[1].enable /\ wifiHist.calls[1].ret
    /\ wifiHist.calls[2].enable /\ wifiHist.calls[2].queued
    /\ wifiHist.calls[1].id # wifiHist.calls[2].id
    /\ wifiHist.last.op = "sync"
    /\ wifiHist.last.enabled
    /\ wifiHist.last.errorCode = CHRE_ERROR_NONE
    /\ Len(wifiHist.last.before) = 2 )
  => /\ wifiHist.driverCalls = << [ enable |-> TRUE, accepted |-> TRUE ] >>
     /\ \A c \in { 1, 2 } :
          wifiHist.calls[c].results = 1 /\ wifiHist.calls[c].success
     /\ { mScanMonitorNanoapps[i] : i \in 1..Len(mScanMonitorNanoapps) }
          = { wifiHist.calls[1].id, wifiHist.calls[2].id }

\* C25 ----------------------------------------------------------------
\* the scan monitor is in the state the latest call asks for, as the
\* results reported so far tell it
AlreadyAsRequested(call) ==
  IF call.enable
  THEN call.granted # {}
  ELSE \/ call.granted = {}
       \/ call.id \notin call.granted
       \/ Cardinality(call.granted) > 1

\* C25: with no transition pending and the scan monitor already in the
\* state the caller asks for, configureScanMonitor does not call the driver
\* and, unless the event cannot be posted, posts a success result to the
\* caller at once and returns true; a disable by one of several requesters
\* leaves the monitor enabled for the others.
C25_NoTransitionWhenAlreadyAsRequested ==
  [][ ( /\ ConfigureStep
        /\ wifiHist'.dead = "none"
        /\ mScanMonitorStateTransitions = << >>
        /\ AlreadyAsRequested(wifiHist'.calls[wifiHist'.last.cookie]) )
      => LET call == wifiHist'.calls[wifiHist'.last.cookie]
         IN /\ NewDriverCalls = << >>
            /\ mScanMonitorStateTransitions' = << >>
            /\ IF call.ret
               THEN /\ call.results = 1
                    /\ call.success
                    /\ call.errorCode = CHRE_ERROR_NONE
                    /\ call.to = call.id
               ELSE call.results = 0
            /\ wifiHist'.granted \ { call.id } = wifiHist.granted \ { call.id }
    ]_vars

\* C26 ----------------------------------------------------------------
\* C26: when configureScanMonitor queues a transition and the driver
\* refuses the call, configureScanMonitor returns false, the entry it
\* queued is removed, so that the queue of pending transitions and the
\* monitoring list are as before the call, and no result is posted.
C26_RefusedTransitionLeavesNoTrace ==
  [][ ( /\ ConfigureStep
        /\ NewDriverCalls # << >>
        /\ ~NewDriverCalls[1].accepted )
      => LET call == wifiHist'.calls[wifiHist'.last.cookie]
         IN /\ ~call.ret
            /\ call.results = 0
            /\ UNCHANGED << mScanMonitorStateTransitions,
                            mScanMonitorNanoapps, driverInFlight >>
            /\ wifiHist'.granted = wifiHist.granted
            /\ wifiHist'.outstanding = wifiHist.outstanding
            /\ \A c \in WifiCalls : wifiHist'.calls[c] = wifiHist.calls[c]
    ]_vars

\* the driver has refused the transition of the latest call, which was
\* the second one to need a transition
C26_Witness ==
  /\ wifiHist.last.op = "configure"
  /\ wifiHist.last.driverCalled
  /\ ~wifiHist.driverCalls[Len(wifiHist.driverCalls)].accepted
  /\ ~wifiHist.calls[wifiHist.last.cookie].ret
  /\ mScanMonitorStateTransitions = << >>
  /\ Len(wifiHist.driverCalls) = 2

\* C27 ----------------------------------------------------------------
\* C27: when a completion (enabled, errorCode) is handled with transitions
\* pending, the head transition is popped and its requester gets a result
\* whose success flag is (errorCode = NONE and head.enable = enabled) and
\* which carries errorCode; when the flag is true the head requester is in
\* the monitoring list after an enable and out of it after a disable, and
\* when it is false the list is left as it was.
C27_HeadResultAndList ==
  [][ ( /\ SyncStep
        /\ wifiHist'.dead = "none"
        /\ mScanMonitorStateTransitions # << >> )
      => LET head == Head(mScanMonitorStateTransitions)
             call == wifiHist'.calls[head.cookie]
             flag == /\ wifiHist'.last.errorCode = CHRE_ERROR_NONE
                     /\ head.enable = wifiHist'.last.enabled
             listed == \E i \in 1..Len(mScanMonitorNanoapps') :
                         mScanMonitorNanoapps'[i] = head.nanoappInstanceId
         IN /\ \A k \in 1..Len(mScanMonitorStateTransitions') :
                 mScanMonitorStateTransitions'[k].cookie # head.cookie
            /\ call.results = 1
            /\ call.to = head.nanoappInstanceId
            /\ call.success = flag
            /\ call.errorCode = wifiHist'.last.errorCode
            /\ IF flag THEN listed = head.enable
               ELSE UNCHANGED mScanMonitorNanoapps
    ]_vars

\* C28 ----------------------------------------------------------------
\* C28: in the completion loop a queued transition found in its requested
\* state gets a success result without error code, whether the transition
\* just completed succeeded or failed, and a queued transition the driver
\* refuses gets a failure result; both are popped, and the loop stops at
\* the first queued transition the driver accepts, which stays at the head.
C28_QueuedResults ==
  /\ [](\A c \in WifiCalls :
          (WifiRunning /\ wifiHist.calls[c].results = 1) =>
            /\ wifiHist.calls[c].how = "instate" =>
                 /\ wifiHist.calls[c].success
                 /\ wifiHist.calls[c].errorCode = CHRE_ERROR_NONE
            /\ wifiHist.calls[c].how = "refused" =>
                 /\ ~wifiHist.calls[c].success
                 /\ wifiHist.calls[c].errorCode = CHRE_ERROR
            /\ \A k \in 1..Len(mScanMonitorStateTransitions) :
                 mScanMonitorStateTransitions[k].cookie # c)
  /\ [][ ( /\ SyncStep
           /\ NewDriverCalls # << >>
           /\ NewDriverCalls[Len(NewDriverCalls)].accepted )
         => /\ mScanMonitorStateTransitions' # << >>
            /\ Head(mScanMonitorStateTransitions').enable
                 = NewDriverCalls[Len(NewDriverCalls)].enable
            /\ wifiHist'.calls[Head(mScanMonitorStateTransitions').cookie]
                 .results = 0 ]_vars

\* ----------------------------------------------------------- socket claims
\* min(500 ms * 2^k, 5 minutes), in milliseconds: 500 * 2^10 is beyond the
\* limit already
Backoff(k) ==
  IF k > 9 THEN kMaxDelay
  ELSE IF kInitialDelay * 2^k > kMaxDelay THEN kMaxDelay
       ELSE kInitialDelay * 2^k

\* every attempt of a reconnect cycle comes after a backoff wait that ran
\* to its end, the wait after k failures lasts Backoff(k), and doubling
\* the delay never left the range of int32_t
BackoffRule ==
  \A t \in RxThreads :
    /\ rx[t].attempts <= Len(rx[t].waits)
    /\ Len(rx[t].waits) <= rx[t].attempts + 1
    /\ rx[t].pc = "r_try" <=> Len(rx[t].waits) = rx[t].attempts + 1
    /\ \A k \in 1..Len(rx[t].waits) : rx[t].waits[k] = Backoff(k - 1)
    /\ ~rx[t].overflow

\* the reconnect cycle of thread t ended with a successful attempt after
\* n failed ones
ReconnectedAfter(t, n) ==
  rx[t].cycle = "reconnected" /\ rx[t].attempts = n + 1

LiveRxThreads == { t \in RxThreads : rx[t].pc \notin { "none", "done" } }

\* a step in which a connection attempt of reconnect() succeeds
ReconnectSucceeds(t) == rx[t].pc = "r_try" /\ rx'[t].pc = "top"

\* C30: onSocketReconnected is invoked exactly once for each successful
\* attempt of reconnect() and at no other time, neither for a failed
\* attempt nor for the connect() that started the thread; the thread that
\* reconnects is the one that served the connection before and it serves
\* the connection after, no thread being started or ended by the
\* reconnect; and there are never two receive threads.
C30_ReconnectedOncePerReconnect ==
  /\ [](Cardinality(LiveRxThreads) <= 1)
  /\ [][ /\ sockHist'.onSocketReconnected =
              sockHist.onSocketReconnected
                + Cardinality({ t \in RxThreads : ReconnectSucceeds(t) })
         /\ \A t \in RxThreads :
              ReconnectSucceeds(t)
                => /\ LiveRxThreads = { t }
                   /\ LiveRxThreads' = { t }
                   /\ mRxThread = t /\ mRxThread' = t
                   /\ mSockFd' = "connected"
                   /\ rx[t].attempts = Len(rx[t].waits) - 1
                   /\ sockHist'.started = sockHist.started ]_vars

\* the one receive thread has reconnected after 3 failed attempts and is
\* receiving again
C30_Witness ==
  /\ ReconnectedAfter(1, 3)
  /\ rx[1].pc = "recv"
  /\ sockHist.onSocketReconnected = 1
  /\ sockHist.started = 1

\* C31 ----------------------------------------------------------------
\* the calling thread is inside disconnect()
InDisconnect == caller.pc \in { "d_flag", "d_notify", "d_shutdown", "d_join" }

\* disconnect() has set the flag and notified the condition variable
Notified == caller.pc \in { "d_shutdown", "d_join" }

\* the callbacks invoked so far
Callbacks ==
  << sockHist.onMessageReceived, sockHist.onSocketDisconnectedByRemote,
     sockHist.onSocketReconnected, sockHist.onReconnectAborted >>

\* C31: disconnect() called from a thread other than the receive thread
\* always returns, wherever the receive thread is, without waiting for a
\* backoff wait to time out or for the remote end; when it returns the
\* receive thread has exited; a thread blocked in the backoff wait has been
\* woken once disconnect() has notified; and no callback is invoked between
\* the return of disconnect() and the next connect().
C31_DisconnectTerminates ==
  /\ [](InDisconnect => <>(~InDisconnect))
  /\ [][ (caller.pc = "d_join" /\ caller'.pc # "d_join")
           => mRxThread' = 0 /\ LiveRxThreads' = {} ]_vars
  /\ [](Notified => \A t \in RxThreads :
                      rx[t].pc = "r_blocked" => rx[t].notified)
  /\ [][ (caller.pc = "idle" /\ sockHist.last.op = "disconnect")
           => Callbacks' = Callbacks ]_vars

\* disconnect() has returned after it found the receive thread inside
\* reconnect(), which the remote end's disconnect had started
C31_Witness ==
  /\ caller.pc = "idle"
  /\ sockHist.last.op = "disconnect"
  /\ mRxThread = 0
  /\ rx[1].pc = "done"
  /\ sockHist.onSocketDisconnectedByRemote = 1
  /\ sockHist.onSocketReconnected = 0
  /\ sockHist.onReconnectAborted = 0
  /\ mReconnectAutomatically

\* C36 ----------------------------------------------------------------
\* C36: a reconnect cycle makes no more than 40 attempts; a receive thread
\* whose cycle has run out of attempts invokes onReconnectAborted once,
\* unless disconnect() has been requested by then, and exits; and
\* onReconnectAborted is invoked at no other time: not when shutdown has
\* been requested, not when reconnecting was not asked for, and only by a
\* thread whose every attempt failed.
C36_AbortedOnceAfterBoundedAttempts ==
  /\ [](\A t \in RxThreads : rx[t].attempts <= kRetryLimit)
  /\ [][ \A t \in RxThreads :
           (rx[t].pc = "fin" /\ rx'[t].pc = "done")
             => IF /\ rx[t].cycle = "gaveup"
                   /\ ~mGracefulShutdown
                THEN /\ sockHist'.onReconnectAborted
                          = sockHist.onReconnectAborted + 1
                     /\ mReconnectAutomatically
                     /\ rx[t].attempts = Len(rx[t].waits)
                     /\ rx[t].attempts < kRetryLimit
                ELSE /\ sockHist'.onReconnectAborted
                          = sockHist.onReconnectAborted
                     /\ mGracefulShutdown \/ ~mReconnectAutomatically ]_vars
  /\ [][ sockHist'.onReconnectAborted # sockHist.onReconnectAborted
           => \E t \in RxThreads : rx[t].pc = "fin" /\ rx'[t].pc = "done" ]_vars
  /\ \A t \in RxThreads : [](rx[t].pc = "fin" => <>(rx[t].pc = "done"))

\* a receive thread has given up after 39 failed attempts and has exited
C36_Witness ==
  /\ sockHist.onReconnectAborted = 1
  /\ sockHist.abortedAfter = kRetryLimit - 1
  /\ rx[1].pc = "done"
  /\ ~mGracefulShutdown

\* C38 ----------------------------------------------------------------
\* monitoring lists of up to three nanoapps
MonitoringLists ==
  { << >> } \cup { << a >> : a \in 1..3 } \cup
  { << a, b >> : a \in 1..3, b \in 1..3 } \cup
  { << a, b, c >> : a \in 1..3, b \in 1..3, c \in 1..3 }

\* completions the driver owes or the event loop has yet to run
CompletionsOutstanding == Len(driverInFlight) + Len(deferredCallbacks)

\* C38: whenever configureScanMonitor or handleScanMonitorStateChangeSync
\* has returned, the queue of pending transitions is empty or its head is a
\* transition the driver accepted and whose completion is still to come, so
\* that no queued request waits without a completion outstanding; and for
\* every (enable, has-request, monitoring list) exactly one of "in requested
\* state" and "transition required" holds, so that the branches for an
\* invalid configuration or state are not reached.
C38_HeadAwaitsCompletion ==
  /\ ( /\ wifiHist.last.op \in { "configure", "sync" }
       /\ WifiRunning
       /\ mScanMonitorStateTransitions # << >> )
     => /\ CompletionsOutstanding = 1
        /\ wifiHist.outstanding = 1
        /\ wifiHist.calls[Head(mScanMonitorStateTransitions).cookie].results = 0
  /\ \A enable \in BOOLEAN, has \in BOOLEAN, apps \in MonitoringLists :
       scanMonitorIsInRequestedState(apps, enable, has)
         # scanMonitorStateTransitionIsRequired(apps, enable, has)

\* ---------------------------------------------------------------- C32
\* the nanoapps that had a pending event when the deliverEvents call in
\* progress was entered, in the order of the nanoapp list
RoundOrder ==
  SelectSeq([ i \in 1..Len(mNanoapps) |-> mNanoapps[i].instanceId ],
            LAMBDA id : \E p \in hist.round.start : p[1] = id /\ p[2] > 0)

RoundOver == pc = "deliver" /\ NextPending(mNanoapps, appIdx) = 0

\* C32: one call of deliverEvents delivers exactly one event to every
\* nanoapp whose queue was non-empty when the call began and none to the
\* others, in the order of the nanoapp list, and returns true exactly when
\* some nanoapp still has a pending event afterwards; so at no point of the
\* call has a nanoapp received two events while a pending one has none.
C32_RoundDeliversOneEach ==
  pc = "deliver" =>
    /\ Len(hist.round.got) <= Len(RoundOrder)
    /\ hist.round.got = SubSeq(RoundOrder, 1, Len(hist.round.got))
    /\ RoundOver =>
         /\ hist.round.got = RoundOrder
         /\ \A i \in 1..Len(mNanoapps) :
              \E p \in hist.round.start :
                /\ p[1] = mNanoapps[i].instanceId
                /\ Len(mNanoapps[i].queue) =
                     IF p[2] > 0 THEN p[2] - 1 ELSE 0
         /\ roundPending =
              (\E i \in 1..Len(mNanoapps) : mNanoapps[i].queue # << >>)

\* a call that has delivered to two nanoapps and is about to return
C32_Witness ==
  /\ RoundOver
  /\ Len(hist.round.got) = 2

\* ---------------------------------------------------------------- C37
\* a step in which the platform thread's postEvent, past its test of
\* mRunning, returns false
PostPushFails ==
  /\ \E post \in ExtPosts : ExtPostPush(post)
  /\ hist'.last = PostLog(FALSE)

\* C37: whenever postEvent returns false the event pool has the same
\* allocated blocks as before the call, also when the block was allocated
\* and the push onto the inbound queue failed, and the free callback of the
\* refused payload is never invoked.
C37_FailedPostLeavesPoolUnchanged ==
  /\ [][ PostPushFails => LiveCount(mEventPool') = LiveCount(mEventPool) ]_vars
  /\ [](\A e \in Events : ~mEventPool[e].accepted => mEventPool[e].frees = 0)

\* ---------------------------------------------------------------- C40
\* unloadNanoapp is between its marking of the nanoapp and the clearing of
\* the marker
UnloadInProgress == mStoppingNanoapp # NoApp

\* C40: currentNanoappIsStopping() returns true only if the loop has been
\* stopped or the current nanoapp is the one being unloaded; while the loop
\* is running and no unload is in progress it returns false in every
\* calling context, also when no nanoapp is current (system context).
C40_StoppingOnlyWhenStoppedOrUnloading ==
  /\ currentNanoappIsStopping(Core) =>
       \/ ~mRunning
       \/ UnloadInProgress /\ mCurrentApp = mStoppingNanoapp
  /\ (mRunning /\ ~UnloadInProgress) => ~currentNanoappIsStopping(Core)

\* ---------------------------------------------------------------- C33
\* the loop thread is in the blocking pop and mEvents is empty
BlockedInPop == pc = "pop" /\ mEvents = << >>

\* event e is in the queue of the nanoapp with instance id n
Queued(e, n) ==
  \E i \in 1..Len(mNanoapps) :
    /\ mNanoapps[i].instanceId = n
    /\ \E k \in 1..Len(mNanoapps[i].queue) : mNanoapps[i].queue[k] = e

\* event e has been handed to the handler of every nanoapp in whose queue
\* it was placed: it is recorded as delivered to each of them, or it has
\* been freed with no reference left
Delivered(e) ==
  /\ e \in Events
  /\ \/ mEventPool[e].live /\ mEventPool[e].enq \subseteq mEventPool[e].deliv
     \/ ~mEventPool[e].live /\ ~mEventPool[e].badRef

\* C33: the loop thread waits in the blocking pop with an empty inbound
\* queue only when every nanoapp's queue is empty; so every event placed in
\* a nanoapp's queue is eventually delivered to it, whether or not anything
\* further is posted.
C33_QueuedEventsAreDelivered ==
  /\ [](BlockedInPop =>
         \A i \in 1..Len(mNanoapps) : mNanoapps[i].queue = << >>)
  /\ \A e \in 1..MaxPosts :
       (\E n \in InstanceIds : Queued(e, n))
         ~> ((\A n \in InstanceIds : ~Queued(e, n)) /\ Delivered(e))

\* in a call of deliverEvents one nanoapp has been given its event and an
\* event waits in the queue of another, while mEvents is empty
C33_Witness ==
  /\ pc = "deliver"
  /\ mEvents = << >>
  /\ hist.round.got # << >>
  /\ \E e \in Events, n \in InstanceIds : Queued(e, n)

\* ---------------------------------------------------------------- C35
\* distributeEvent runs for event e, the head of mEvents
DistributionOf(e) ==
  /\ pc \in { "pop", "u_inbound" }
  /\ mEvents # << >>
  /\ e = Head(mEvents)
  /\ ~mEventPool[e].distributed
  /\ mEventPool'[e].distributed \/ ~mEventPool'[e].live

\* a nanoapp the event is for has a full queue
TargetQueueFull(e) ==
  \E i \in Recipients(mNanoapps, mEventPool[e]) :
    Len(mNanoapps[i].queue) >= MaxNanoappQueue

\* C35: when the queue of a nanoapp an event is for is full at the time
\* the event is distributed, the event is not lost: it stays in the inbound
\* queue, to be tried again in a later round, and it is neither freed nor
\* dropped from the pool's books.
C35_FullQueueKeepsEvent ==
  [][ \A e \in Events :
        (DistributionOf(e) /\ TargetQueueFull(e)) =>
          /\ \E k \in 1..Len(mEvents') : mEvents'[k] = e
          /\ mEventPool'[e].live ]_vars

\* ---------------------------------------------------------------- C39
\* the record at index i of the nanoapp list is erased by this step
Erased(i) ==
  \A j \in 1..Len(mNanoapps') :
    mNanoapps'[j].instanceId # mNanoapps[i].instanceId

\* C39: when a nanoapp's record is erased (by unloadNanoapp, by the
\* unload-all at the exit of run(), or after a failed start) its queue is
\* empty, so that the reference count of every event is at all times the
\* number of entries of nanoapp queues that hold it.
C39_ErasedWithEmptyQueue ==
  /\ [][ \A i \in 1..Len(mNanoapps) :
           Erased(i) => mNanoapps[i].queue = << >> ]_vars
  /\ [](\A e \in Events :
          mEventPool[e].mRefCount =
            IF mEventPool[e].live THEN QueuedCount(e) ELSE 0)

\* run() has returned after it unloaded a nanoapp whose handler had run,
\* and a start has failed
C39_Witness ==
  /\ RunReturned
  /\ \E id \in InstanceIds :
       hist.napp[id].ends = 1 /\ hist.napp[id].mustDeliver = {}
  /\ \E id \in InstanceIds :
       hist.napp[id].started /\ ~hist.napp[id].startRet
  /\ \E e \in Events : mEventPool[e].frees = 1

====
